---- MODULE Spec2Model ----
(***************************************************************************)
(* DNAFL scraper (src/scraper.py): the record normalizer / deduplication   *)
(* engine (standardize_data), the row mappings of the extractors that feed *)
(* it, and the run coordinator (main).                                     *)
(*                                                                         *)
(* Text is modelled as a sequence of one-character strings, so that        *)
(* trimming, whitespace collapsing, date parsing and date formatting are   *)
(* computed character by character as the code computes them.              *)
(***************************************************************************)
EXTENDS Integers, Sequences, FiniteSets, TLC

(***************************************************************************)
(* Characters and text                                                     *)
(***************************************************************************)

\* The characters of the model in code-point order; Python compares str
\* values by code point, so positions in this list decide every comparison.
CharOrder ==
    << "\t", "\n", " ", ",", "-", ".", "/",
       "0", "1", "2", "3", "4", "5", "6", "7", "8", "9", ":",
       "A", "B", "C", "D", "E", "F", "G", "H", "I", "J", "K", "L", "M",
       "N", "O", "P", "Q", "R", "S", "T", "U", "V", "W", "X", "Y", "Z",
       "a", "b", "c", "d", "e", "f", "g", "h", "i", "j", "k", "l", "m",
       "n", "o", "p", "q", "r", "s", "t", "u", "v", "w", "x", "y", "z" >>

Ord(c) == CHOOSE i \in 1..Len(CharOrder) : CharOrder[i] = c

Digits == {"0", "1", "2", "3", "4", "5", "6", "7", "8", "9"}

\* The characters the regular expression class \s matches.
Whitespace == {" ", "\t", "\n"}

DigitVal(c) == Ord(c) - Ord("0")

DigitChar(k) == CharOrder[Ord("0") + k]

\* str < str in Python: lexicographic by code point, a proper prefix first.
RECURSIVE StrLess(_, _)
StrLess(a, b) ==
    IF b = <<>> THEN FALSE
    ELSE IF a = <<>> THEN TRUE
    ELSE IF a[1] # b[1] THEN Ord(a[1]) < Ord(b[1])
    ELSE StrLess(Tail(a), Tail(b))

\* str.upper() on the letters of the model.
UpperChar(c) ==
    IF Ord(c) >= Ord("a") /\ Ord(c) <= Ord("z")
    THEN CharOrder[Ord(c) - Ord("a") + Ord("A")]
    ELSE c

Upper(s) == [i \in 1..Len(s) |-> UpperChar(s[i])]

RECURSIVE LStrip(_)
LStrip(s) ==
    IF s # <<>> /\ s[1] \in Whitespace THEN LStrip(Tail(s)) ELSE s

RECURSIVE RStrip(_)
RStrip(s) ==
    IF s # <<>> /\ s[Len(s)] \in Whitespace
    THEN RStrip(SubSeq(s, 1, Len(s) - 1))
    ELSE s

\* Series.str.strip()
str_strip(s) == RStrip(LStrip(s))

\* Series.str.replace(r'\s+', ' ', regex=True): every maximal run of
\* whitespace becomes one space.
RECURSIVE str_replace_ws(_)
str_replace_ws(s) ==
    IF s = <<>> THEN <<>>
    ELSE IF s[1] \in Whitespace
         THEN <<" ">> \o str_replace_ws(LStrip(s))
         ELSE <<s[1]>> \o str_replace_ws(Tail(s))

\* The fields of s between the occurrences of the separator sep.
RECURSIVE Split(_, _)
Split(s, sep) ==
    IF \A i \in 1..Len(s) : s[i] # sep THEN <<s>>
    ELSE LET k == CHOOSE i \in 1..Len(s) :
                      s[i] = sep /\ \A j \in 1..(i - 1) : s[j] # sep
         IN  <<SubSeq(s, 1, k - 1)>> \o Split(SubSeq(s, k + 1, Len(s)), sep)

IsNumber(s) == s # <<>> /\ \A i \in 1..Len(s) : s[i] \in Digits

RECURSIVE Num(_)
Num(s) ==
    IF s = <<>> THEN 0
    ELSE 10 * Num(SubSeq(s, 1, Len(s) - 1)) + DigitVal(s[Len(s)])

(***************************************************************************)
(* Sentinels                                                               *)
(***************************************************************************)

NA == <<"N", "/", "A">>

Unknown == <<"U", "n", "k", "n", "o", "w", "n">>

\* NaN: the value pandas holds in a cell that has no value.
NaN == <<"NaN">>

(***************************************************************************)
(* Dates: pandas.to_datetime(..., errors='coerce') and Series.dt.strftime  *)
(***************************************************************************)

\* A parsed value is a calendar day; NaT is the value errors='coerce' puts
\* where parsing failed.
NaT == [y |-> 0, m |-> 0, d |-> 0]

IsLeap(y) == (y % 4 = 0 /\ y % 100 # 0) \/ y % 400 = 0

DaysInMonth(y, m) ==
    IF m = 2 THEN (IF IsLeap(y) THEN 29 ELSE 28)
    ELSE IF m \in {4, 6, 9, 11} THEN 30
    ELSE 31

\* (y1, m1, d1) <= (y2, m2, d2) in calendar order.
DayLeq(a, b) ==
    \/ a.y < b.y
    \/ a.y = b.y /\ a.m < b.m
    \/ a.y = b.y /\ a.m = b.m /\ a.d <= b.d

\* Midnight of this day is representable as a datetime64[ns]:
\* Timestamp.min is 1677-09-21 00:12:43.145, Timestamp.max 2262-04-11 23:47:16.854.
InTimestampRange(t) ==
    /\ DayLeq([y |-> 1677, m |-> 9, d |-> 22], t)
    /\ DayLeq(t, [y |-> 2262, m |-> 4, d |-> 11])

\* A parse that accepts any day number up to 31 in any month.
Timestamp_any_day(y, m, d) ==
    IF m \in 1..12 /\ d \in 1..31
       /\ InTimestampRange([y |-> y, m |-> m, d |-> d])
    THEN [y |-> y, m |-> m, d |-> d]
    ELSE NaT

\* A parse that read year y, month m and day d: a Timestamp when that is a day
\* of the calendar inside the representable range, NaT otherwise.
Timestamp(y, m, d) ==
    IF m \in 1..12 /\ d >= 1 /\ d <= DaysInMonth(y, m)
       /\ InTimestampRange([y |-> y, m |-> m, d |-> d])
    THEN [y |-> y, m |-> m, d |-> d]
    ELSE NaT

\* The text the directive %m matches: 1[0-2] | 0[1-9] | [1-9]
MonthField(f) ==
    \/ Len(f) = 2 /\ f[1] = "1" /\ f[2] \in {"0", "1", "2"}
    \/ Len(f) = 2 /\ f[1] = "0" /\ f[2] \in Digits \ {"0"}
    \/ Len(f) = 1 /\ f[1] \in Digits \ {"0"}

\* The text the directive %d matches: 3[0-1] | [1-2]\d | 0[1-9] | [1-9] | ' '[1-9]
DayField(f) ==
    \/ Len(f) = 2 /\ f[1] = "3" /\ f[2] \in {"0", "1"}
    \/ Len(f) = 2 /\ f[1] \in {"1", "2"} /\ f[2] \in Digits
    \/ Len(f) = 2 /\ f[1] \in {"0", " "} /\ f[2] \in Digits \ {"0"}
    \/ Len(f) = 1 /\ f[1] \in Digits \ {"0"}

\* The text the directive %Y matches: \d\d\d\d
YearField(f) == Len(f) = 4 /\ IsNumber(f)

FieldVal(f) == Num(SelectSeq(f, LAMBDA c : c \in Digits))

\* pd.to_datetime(s, format='%m/%d/%Y', errors='coerce'): the whole text must
\* match the format.
to_datetime_mdY(s) ==
    LET f == Split(s, "/")
    IN  IF Len(f) = 3 /\ MonthField(f[1]) /\ DayField(f[2]) /\ YearField(f[3])
        THEN Timestamp(FieldVal(f[3]), FieldVal(f[1]), FieldVal(f[2]))
        ELSE NaT

\* pd.to_datetime(s, format='%Y-%m-%d', errors='coerce')
to_datetime_Ymd(s) ==
    LET f == Split(s, "-")
    IN  IF Len(f) = 3 /\ YearField(f[1]) /\ MonthField(f[2]) /\ DayField(f[3])
        THEN Timestamp(FieldVal(f[1]), FieldVal(f[2]), FieldVal(f[3]))
        ELSE NaT

\* The month names the permissive parser knows, upper-cased; a name or its
\* first three letters names the month of its position.
MonthNames ==
    << <<"J", "A", "N", "U", "A", "R", "Y">>,
       <<"F", "E", "B", "R", "U", "A", "R", "Y">>,
       <<"M", "A", "R", "C", "H">>,
       <<"A", "P", "R", "I", "L">>,
       <<"M", "A", "Y">>,
       <<"J", "U", "N", "E">>,
       <<"J", "U", "L", "Y">>,
       <<"A", "U", "G", "U", "S", "T">>,
       <<"S", "E", "P", "T", "E", "M", "B", "E", "R">>,
       <<"O", "C", "T", "O", "B", "E", "R">>,
       <<"N", "O", "V", "E", "M", "B", "E", "R">>,
       <<"D", "E", "C", "E", "M", "B", "E", "R">> >>

MonthOf(w) ==
    LET u == Upper(w)
        hit == {i \in 1..12 : u = MonthNames[i] \/ u = SubSeq(MonthNames[i], 1, 3)}
    IN  IF hit = {} THEN 0 ELSE CHOOSE i \in hit : TRUE

\* Three numbers around '/' or '-': year first when the first has four digits,
\* otherwise month/day/year, read as day/month/year when the first number
\* cannot be a month.
NumericDate(f) ==
    IF Len(f[1]) = 4 /\ Len(f[2]) <= 2 /\ Len(f[3]) <= 2
    THEN Timestamp(Num(f[1]), Num(f[2]), Num(f[3]))
    ELSE IF Len(f[3]) = 4 /\ Len(f[1]) <= 2 /\ Len(f[2]) <= 2
    THEN IF Num(f[1]) <= 12
         THEN Timestamp(Num(f[3]), Num(f[1]), Num(f[2]))
         ELSE Timestamp(Num(f[3]), Num(f[2]), Num(f[1]))
    ELSE NaT

\* pd.to_datetime(s, errors='coerce') without a format: the permissive parser,
\* on the shapes of date text the registries publish (numeric dates around
\* '/' or '-', and "Month D, YYYY"); any other text is NaT.
to_datetime_infer(s) ==
    LET bySlash == Split(s, "/")
        byDash  == Split(s, "-")
        words   == Split(SelectSeq(s, LAMBDA c : c # ","), " ")
    IN  IF Len(bySlash) = 3 /\ \A i \in 1..3 : IsNumber(bySlash[i])
        THEN NumericDate(bySlash)
        ELSE IF Len(byDash) = 3 /\ \A i \in 1..3 : IsNumber(byDash[i])
        THEN NumericDate(byDash)
        ELSE IF Len(words) = 3 /\ MonthOf(words[1]) # 0
                /\ IsNumber(words[2]) /\ Len(words[2]) <= 2 /\ YearField(words[3])
        THEN Timestamp(Num(words[3]), MonthOf(words[1]), Num(words[2]))
        ELSE NaT

\* Series.fillna(other) on one element
fillna(v, other) == IF v = NaT THEN other ELSE v

\* n written with at least w digits, zero padded
RECURSIVE ZeroPad(_, _)
ZeroPad(n, w) ==
    IF w <= 1 /\ n < 10 THEN <<DigitChar(n)>>
    ELSE ZeroPad(n \div 10, w - 1) \o <<DigitChar(n % 10)>>

\* Series.dt.strftime('%Y-%m-%d') on one element: NaT gives NaN.
strftime_Ymd(t) ==
    IF t = NaT THEN NaN
    ELSE ZeroPad(t.y, 4) \o <<"-">> \o ZeroPad(t.m, 2) \o <<"-">> \o ZeroPad(t.d, 2)

\* Series.fillna(text) on one element of a column of text
fillna_str(v, other) == IF v = NaN THEN other ELSE v

\* Lines 187-197 of standardize_data on one Date value: the three parses in
\* order, each filling only what the earlier ones left missing, then the
\* formatted day, with 'Unknown' where every parse failed.
ParseDate(s) ==
    LET Date_Parsed ==
            fillna(fillna(to_datetime_mdY(s), to_datetime_Ymd(s)),
                   to_datetime_infer(s))
    IN  fillna_str(strftime_Ymd(Date_Parsed), Unknown)

(***************************************************************************)
(* Tables                                                                  *)
(***************************************************************************)

\* A DataFrame is a sequence of rows; a row maps column names to text. The
\* empty sequence is the empty DataFrame (df.empty), which has no columns.
Columns == {"Name", "Date", "County", "Source", "Details", "Type"}

ColumnsOf(data) == UNION {DOMAIN data[i] : i \in 1..Len(data)}

\* pd.DataFrame(data) for a list of dicts, and pd.concat(results,
\* ignore_index=True) on the rows of the tables: the columns are the union of
\* the keys, a cell without a value is NaN.
DataFrame(data) ==
    [i \in 1..Len(data) |->
        [c \in ColumnsOf(data) |->
            IF c \in DOMAIN data[i] THEN data[i][c] ELSE NaN]]

RECURSIVE Flatten(_)
Flatten(tables) ==
    IF tables = <<>> THEN <<>> ELSE tables[1] \o Flatten(Tail(tables))

concat(tables) == DataFrame(Flatten(tables))

(***************************************************************************)
(* standardize_data                                                        *)
(***************************************************************************)

\* for col in [...]: if col not in df.columns: df[col] = 'N/A'
AddMissingColumns(df) ==
    [i \in 1..Len(df) |->
        [c \in ColumnsOf(df) \cup Columns |->
            IF c \in DOMAIN df[i] THEN df[i][c] ELSE NA]]

\* df[col].fillna('N/A').astype(str).str.strip().str.replace(r'\s+', ' ')
CleanCell(v) == str_replace_ws(str_strip(fillna_str(v, NA)))

CleanStrings(df) ==
    [i \in 1..Len(df) |-> [c \in DOMAIN df[i] |-> CleanCell(df[i][c])]]

\* df['Date'] = df['Date_Parsed'].dt.strftime('%Y-%m-%d').fillna('Unknown')
ParseDates(df) ==
    [i \in 1..Len(df) |-> [df[i] EXCEPT !.Date = ParseDate(@)]]

\* The orders in which the rows with index in S can follow one another with
\* Date never increasing.
RECURSIVE DescendingOrders(_, _)
DescendingOrders(df, S) ==
    IF S = {} THEN {<<>>}
    ELSE UNION {{<<i>> \o o : o \in DescendingOrders(df, S \ {i})} :
                i \in {k \in S : \A j \in S : ~StrLess(df[k].Date, df[j].Date)}}

\* The table in the order it came in.
sort_values_unsorted(df) == {df}

\* sort_values('Date', ascending=False) with the default kind='quicksort',
\* which is not a stable sort: the rows come out in descending order of Date,
\* and rows of equal Date in an order the call does not promise. Every such
\* order is an outcome.
sort_values(df) ==
    {[i \in 1..Len(df) |-> df[p[i]]] : p \in DescendingOrders(df, 1..Len(df))}

\* df.take(indexer): the rows of df in the order the indexer names them.
take(df, indexer) == [i \in 1..Len(indexer) |-> df[indexer[i]]]

\* The identity key of drop_duplicates(subset=['Name', 'County', 'Date'])
KeyOf(r) == <<r.Name, r.County, r.Date>>

\* drop_duplicates() without subset=: only rows equal in every column are
\* duplicates.
RECURSIVE drop_duplicates_whole_row(_)
drop_duplicates_whole_row(df) ==
    IF df = <<>> THEN <<>>
    ELSE LET init == drop_duplicates_whole_row(SubSeq(df, 1, Len(df) - 1))
             last == df[Len(df)]
         IN  IF \E i \in 1..Len(init) : init[i] = last
             THEN init
             ELSE Append(init, last)

\* drop_duplicates keeps, for each key, the first row that has it.
RECURSIVE drop_duplicates(_)
drop_duplicates(df) ==
    IF df = <<>> THEN <<>>
    ELSE LET init == drop_duplicates(SubSeq(df, 1, Len(df) - 1))
             last == df[Len(df)]
         IN  IF \E i \in 1..Len(init) : KeyOf(init[i]) = KeyOf(last)
             THEN init
             ELSE Append(init, last)

\* The rows after cleaning and date parsing, before sorting and dropping.
Normalized(df) == ParseDates(CleanStrings(AddMissingColumns(df)))

\* What standardize_data returns when its try block raises:
\* except Exception as e: logger.error(...); return pd.DataFrame()
standardize_data_except == <<>>

\* The tables standardize_data(df) can return when its try block runs to the
\* end.
standardize_data(df) ==
    IF df = <<>> THEN {df}
    ELSE {drop_duplicates(t) : t \in sort_values(Normalized(df))}

(***************************************************************************)
(* Extractors: the record each source row gives                            *)
(***************************************************************************)

\* sub in s, for str values
Contains(s, sub) ==
    \E i \in 0..(Len(s) - Len(sub)) : SubSeq(s, i + 1, i + Len(sub)) = sub

\* sep.join(parts)
RECURSIVE Join(_, _)
Join(parts, sep) ==
    IF parts = <<>> THEN <<>>
    ELSE IF Len(parts) = 1 THEN parts[1]
    ELSE parts[1] \o sep \o Join(Tail(parts), sep)

\* row_data.get(key, default)
DictGet(row_data, key, default) ==
    IF key \in DOMAIN row_data THEN row_data[key] ELSE default

\* scrape_polk, one row of the table: cols is the stripped text of its cells,
\* [Name, Address, DOB, Conviction Date, Statute, Expiration]. The records
\* appended to data.
scrape_polk_row(cols) ==
    IF Len(cols) >= 6
    THEN << [Name    |-> cols[1],
             Date    |-> cols[4],
             County  |-> <<"P", "o", "l", "k">>,
             Source  |-> <<"P", "o", "l", "k", " ", "R", "e", "g", "i", "s", "t", "r", "y">>,
             Type    |-> <<"C", "o", "n", "v", "i", "c", "t", "e", "d">>,
             Details |-> <<"A", "d", "d", "r", "e", "s", "s", ":", " ">> \o cols[2] \o <<" ", "|", " ", "D", "O", "B", ":", " ">> \o cols[3]
                         \o <<" ", "|", " ", "S", "t", "a", "t", "u", "t", "e", ":", " ">> \o cols[5]
                         \o <<" ", "|", " ", "E", "x", "p", "i", "r", "a", "t", "i", "o", "n", ":", " ">> \o cols[6]] >>
    ELSE <<>>

\* scrape_broward, one row of the rendered grid:
\* [Name, DOB, Address, Case, Conviction Date, Reg. End]
scrape_broward_row(cols) ==
    IF Len(cols) >= 6
    THEN << [Name    |-> cols[1],
             Date    |-> cols[5],
             County  |-> <<"B", "r", "o", "w", "a", "r", "d">>,
             Source  |-> <<"B", "r", "o", "w", "a", "r", "d", " ", "R", "e", "g", "i", "s", "t", "r", "y">>,
             Type    |-> <<"C", "o", "n", "v", "i", "c", "t", "e", "d">>,
             Details |-> <<"D", "O", "B", ":", " ">> \o cols[2] \o <<" ", "|", " ", "A", "d", "d", "r", "e", "s", "s", ":", " ">> \o cols[3]
                         \o <<" ", "|", " ", "C", "a", "s", "e", ":", " ">> \o cols[4]
                         \o <<" ", "|", " ", "R", "e", "g", "i", "s", "t", "r", "a", "t", "i", "o", "n", " ", "E", "n", "d", ":", " ">> \o cols[6]] >>
    ELSE <<>>

\* scrape_hillsborough, one row of a table of the enjoined-list PDF: row_data
\* maps the header texts to the stripped cells of the row.
scrape_hillsborough_row(row_data) ==
    IF "Last Name" \in DOMAIN row_data /\ "First Name" \in DOMAIN row_data
    THEN LET last  == str_strip(row_data["Last Name"])
             first == str_strip(row_data["First Name"])
             name  == str_strip(last \o <<" ">> \o first)
             part(key, label) ==
                 IF DictGet(row_data, key, <<>>) # <<>>
                 THEN << label \o row_data[key] >>
                 ELSE <<>>
             details_parts ==
                 part("Case Number", <<"C", "a", "s", "e", ":", " ">>)
                 \o part("End Date", <<"E", "n", "d", ":", " ">>)
                 \o part("Special Restrictions", <<"R", "e", "s", "t", "r", "i", "c", "t", "i", "o", "n", "s", ":", " ">>)
         IN  IF name = <<>> \/ Contains(name, <<"L", "a", "s", "t", " ", "N", "a", "m", "e">>)
             THEN <<>>
             ELSE << [Name    |-> name,
                      Date    |-> DictGet(row_data, "Start Date", Unknown),
                      County  |-> <<"H", "i", "l", "l", "s", "b", "o", "r", "o", "u", "g", "h">>,
                      Source  |-> <<"H", "i", "l", "l", "s", "b", "o", "r", "o", "u", "g", "h", " ", "E", "n", "j", "o", "i", "n", "e", "d", " ", "P", "D", "F">>,
                      Type    |-> <<"E", "n", "j", "o", "i", "n", "e", "d">>,
                      Details |-> Join(details_parts, <<" ", "|", " ">>)] >>
    ELSE <<>>

\* The records a source row gives, by the extractor that reads it.
ExtractRow(r) ==
    IF r.src = "polk" THEN scrape_polk_row(r.cells)
    ELSE IF r.src = "broward" THEN scrape_broward_row(r.cells)
    ELSE scrape_hillsborough_row(r.cells)

RECURSIVE ExtractRows(_)
ExtractRows(rs) ==
    IF rs = <<>> THEN <<>> ELSE ExtractRow(rs[1]) \o ExtractRows(Tail(rs))

(***************************************************************************)
(* Static tables: the records a fetched page gives                         *)
(***************************************************************************)

\* A page is the <tr> rows its tables hold, each the stripped texts of its
\* <td> cells (a row of <th> cells has none), or NoTable.
NoTable == [table |-> FALSE, trs |-> <<>>]

Table(trs) == [table |-> TRUE, trs |-> trs]

\* rows[1:]
Rest_keep_all(s) == s

Rest(s) == IF s = <<>> THEN <<>> ELSE Tail(s)

\* datetime.now().strftime('%Y-%m-%d') on the day of the run
Today == <<"2", "0", "2", "5", "-", "0", "6", "-", "0", "1">>

\* scrape_lee, one row of the enjoined list: [Name, Case, Date]
scrape_lee_row(cols) ==
    IF Len(cols) >= 3
    THEN << [Name    |-> cols[1],
             Date    |-> cols[3],
             County  |-> <<"L", "e", "e">>,
             Source  |-> <<"L", "e", "e", " ", "E", "n", "j", "o", "i", "n", "e", "d">>,
             Type    |-> <<"E", "n", "j", "o", "i", "n", "e", "d">>,
             Details |-> <<"C", "a", "s", "e", ":", " ">> \o cols[2]] >>
    ELSE <<>>

\* scrape_collier, one row: [Type, Name, DOB, _, Case, Date]
scrape_collier_row(cols) ==
    IF Len(cols) >= 6
    THEN << [Name    |-> cols[2],
             Date    |-> IF cols[6] \notin {NA, <<>>} THEN cols[6] ELSE Today,
             County  |-> <<"C", "o", "l", "l", "i", "e", "r">>,
             Source  |-> <<"C", "o", "l", "l", "i", "e", "r", " ", "S", "h", "e", "r", "i", "f", "f">>,
             Type    |-> cols[1],
             Details |-> <<"D", "O", "B", ":", " ">> \o cols[3] \o <<" ", "|", " ", "C", "a", "s", "e", ":", " ">> \o cols[5]] >>
    ELSE <<>>

\* scrape_palmbeach, one row:
\* [Name, Address, DOB, Conviction Date, Authority, Expiration]
scrape_palmbeach_row(cols) ==
    IF Len(cols) >= 6
    THEN << [Name    |-> cols[1],
             Date    |-> cols[4],
             County  |-> <<"P", "a", "l", "m", " ", "B", "e", "a", "c", "h">>,
             Source  |-> <<"P", "a", "l", "m", " ", "B", "e", "a", "c", "h", " ", "R", "e", "g", "i", "s", "t", "r", "y">>,
             Type    |-> <<"C", "o", "n", "v", "i", "c", "t", "e", "d">>,
             Details |-> <<"A", "d", "d", "r", "e", "s", "s", ":", " ">> \o cols[2] \o <<" ", "|", " ", "D", "O", "B", ":", " ">> \o cols[3]
                         \o <<" ", "|", " ", "A", "u", "t", "h", "o", "r", "i", "t", "y", ":", " ">> \o cols[5]
                         \o <<" ", "|", " ", "E", "x", "p", "i", "r", "a", "t", "i", "o", "n", ":", " ">> \o cols[6]] >>
    ELSE <<>>

\* scrape_manatee, one row: [Case Number, Party Name, Case Type,
\* Offense/Filing Date, Disposition Date, Disposition Description]
scrape_manatee_row(cols) ==
    IF Len(cols) >= 5
    THEN LET name             == cols[2]
             case_type        == cols[3]
             filing_date      == cols[4]
             disposition_date == IF cols[5] # <<>> THEN cols[5] ELSE Unknown
             disposition      == IF Len(cols) > 5 THEN cols[6] ELSE NA
             date == IF disposition_date # Unknown THEN disposition_date
                     ELSE filing_date
             type_ == IF Contains(Upper(disposition), <<"C", "O", "N", "V", "I", "C", "T", "E", "D">>)
                      THEN <<"C", "o", "n", "v", "i", "c", "t", "e", "d">> ELSE <<"C", "a", "s", "e">>
         IN  << [Name    |-> name,
                 Date    |-> date,
                 County  |-> <<"M", "a", "n", "a", "t", "e", "e">>,
                 Source  |-> <<"M", "a", "n", "a", "t", "e", "e", " ", "C", "l", "e", "r", "k", " ", "A", "n", "i", "m", "a", "l", " ", "C", "a", "s", "e", "s">>,
                 Type    |-> type_,
                 Details |-> <<"C", "a", "s", "e", " ", "N", "u", "m", "b", "e", "r", ":", " ">> \o cols[1]
                             \o <<" ", "|", " ", "C", "a", "s", "e", " ", "T", "y", "p", "e", ":", " ">> \o case_type
                             \o <<" ", "|", " ", "F", "i", "l", "i", "n", "g", " ", "D", "a", "t", "e", ":", " ">> \o filing_date
                             \o <<" ", "|", " ", "D", "i", "s", "p", "o", "s", "i", "t", "i", "o", "n", ":", " ">> \o disposition] >>
    ELSE <<>>

StaticExtractors ==
    {"scrape_lee", "scrape_collier", "scrape_polk", "scrape_palmbeach",
     "scrape_manatee"}

\* The records one row gives, by the extractor that reads the page.
TableRow(extractor, cols) ==
    IF extractor = "scrape_lee" THEN scrape_lee_row(cols)
    ELSE IF extractor = "scrape_collier" THEN scrape_collier_row(cols)
    ELSE IF extractor = "scrape_polk" THEN scrape_polk_row(cols)
    ELSE IF extractor = "scrape_palmbeach" THEN scrape_palmbeach_row(cols)
    ELSE scrape_manatee_row(cols)

\* The loop over the rows of the page: for row in table.find_all('tr')[1:]
\* (soup.select('table tr')[1:] in scrape_collier); a page without a table
\* gives no rows.
TableRecords(extractor, page) ==
    LET trs == Rest(page.trs)
    IN  Flatten([i \in 1..Len(trs) |-> TableRow(extractor, trs[i])])

(***************************************************************************)
(* Free text: the records the lines of the Seminole PDF give               *)
(***************************************************************************)

\* current_key = None
None == <<"None">>

\* re.match(r'^([^:]{1,30}):\s*(.*)', line): the key is at most 30 characters
KeyLength == 30

\* The position of the first ':' of the line, 0 when it has none.
FirstColon(line) ==
    IF \E i \in 1..Len(line) : line[i] = ":"
    THEN CHOOSE i \in 1..Len(line) :
             line[i] = ":" /\ \A j \in 1..(i - 1) : line[j] # ":"
    ELSE 0

\* The regular expression matches the (stripped) line.
KeyMatch(line) == FirstColon(line) \in 2..(KeyLength + 1)

\* match.groups(), both stripped
KeyOfLine(line) == str_strip(SubSeq(line, 1, FirstColon(line) - 1))

ValueOfLine(line) == str_strip(SubSeq(line, FirstColon(line) + 1, Len(line)))

\* A dict is the sequence of its (key, value) items in insertion order.
HasKey(record, key) == \E i \in 1..Len(record) : record[i].k = key

\* record[key], and record.get(key) with None as <<>> (both are falsy)
ItemOf(record, key) ==
    IF HasKey(record, key)
    THEN record[CHOOSE i \in 1..Len(record) : record[i].k = key].v
    ELSE <<>>

\* record[key] = value
SetItem(record, key, value) ==
    IF HasKey(record, key)
    THEN [i \in 1..Len(record) |->
             IF record[i].k = key THEN [k |-> key, v |-> value] ELSE record[i]]
    ELSE Append(record, [k |-> key, v |-> value])

\* The split never happens: the whole text is one entry.
IsAnchorLine_never(line) == FALSE

\* The text splits in front of this line: (?=\nName:) with re.IGNORECASE
IsAnchorLine(line) ==
    Len(line) >= 5 /\ Upper(SubSeq(line, 1, 5)) = <<"N", "A", "M", "E", ":">>

\* re.split(r'(?=\nName:)', "\n" + all_text, flags=re.IGNORECASE), each
\* entry as the lines after its leading line break: cur is the entry that
\* is being collected.
RECURSIVE SplitEntries(_, _)
SplitEntries(lines, cur) ==
    IF lines = <<>> THEN <<cur>>
    ELSE IF IsAnchorLine(lines[1])
         THEN <<cur>> \o SplitEntries(Tail(lines), <<lines[1]>>)
         ELSE SplitEntries(Tail(lines), Append(cur, lines[1]))

\* The loop over the lines of one entry: a "Key: Value" line sets the key, any
\* other line with text extends the value of current_key when there is one.
RECURSIVE ParseLines(_, _, _)
ParseLines(lines, record, current_key) ==
    IF lines = <<>> THEN record
    ELSE LET line == str_strip(lines[1])
         IN  IF line = <<>>
             THEN ParseLines(Tail(lines), record, current_key)
             ELSE IF KeyMatch(line)
             THEN ParseLines(Tail(lines),
                             SetItem(record, KeyOfLine(line), ValueOfLine(line)),
                             KeyOfLine(line))
             ELSE IF current_key # None
             THEN ParseLines(Tail(lines),
                             SetItem(record, current_key,
                                     ItemOf(record, current_key) \o <<" ">> \o line),
                             current_key)
             ELSE ParseLines(Tail(lines), record, current_key)

\* record.get('Adjudication Date') or next((v for k, v in record.items()
\*     if 'Date' in k and v.strip()), 'Unknown')
SeminoleDate(record) ==
    IF ItemOf(record, <<"A", "d", "j", "u", "d", "i", "c", "a", "t", "i", "o", "n", " ", "D", "a", "t", "e">>) # <<>>
    THEN ItemOf(record, <<"A", "d", "j", "u", "d", "i", "c", "a", "t", "i", "o", "n", " ", "D", "a", "t", "e">>)
    ELSE LET dated == SelectSeq(record,
                          LAMBDA it : Contains(it.k, <<"D", "a", "t", "e">>) /\ str_strip(it.v) # <<>>)
         IN  IF dated # <<>> THEN dated[1].v ELSE Unknown

\* ' | '.join([f"{k}: {v}" for k, v in record.items() if k != 'Name'])
SeminoleDetails(record) ==
    LET others == SelectSeq(record, LAMBDA it : it.k # <<"N", "a", "m", "e">>)
    IN  Join([i \in 1..Len(others) |-> others[i].k \o <<":", " ">> \o others[i].v],
             <<" ", "|", " ">>)

\* The records one entry gives.
scrape_seminole_entry(entry) ==
    IF (\A i \in 1..Len(entry) : str_strip(entry[i]) = <<>>)
       \/ ~(\E i \in 1..Len(entry) : Contains(entry[i], <<"N", "a", "m", "e", ":">>))
    THEN <<>>
    ELSE LET record == ParseLines(entry, <<>>, None)
         IN  IF HasKey(record, <<"N", "a", "m", "e">>)
             THEN << [Name    |-> ItemOf(record, <<"N", "a", "m", "e">>),
                      Date    |-> SeminoleDate(record),
                      County  |-> <<"S", "e", "m", "i", "n", "o", "l", "e">>,
                      Source  |-> <<"S", "e", "m", "i", "n", "o", "l", "e", " ", "P", "D", "F">>,
                      Type    |-> <<"C", "o", "n", "v", "i", "c", "t", "e", "d">>,
                      Details |-> SeminoleDetails(record)] >>
             ELSE <<>>

\* scrape_seminole from the lines extract_text_from_pdf returned
TextRecords(lines) ==
    LET entries == SplitEntries(lines, <<>>)
    IN  Flatten([i \in 1..Len(entries) |-> scrape_seminole_entry(entries[i])])

(***************************************************************************)
(* fetch_url and the two sections of scrape_lee                            *)
(***************************************************************************)

\* What one requests.get(...) with raise_for_status() can end with: the
\* response, an HTTPError for a 4xx or a 5xx status, a Timeout, a
\* ConnectionError.
Responses == {"200", "404", "503", "Timeout", "ConnectionError"}

ClientErrors == {"404"}

\* The outcomes that are a requests.exceptions.RequestException; HTTPError,
\* ConnectionError and Timeout are subclasses of it.
RequestException == {"404", "503", "Timeout", "ConnectionError"}

\* retry=retry_if_exception_type(requests.exceptions.RequestException)
retry_if_exception_type(r) == r \in RequestException

\* stop=stop_after_attempt(3)
StopAfterAttempt == 3

stop_after_attempt(attempt_number) == attempt_number >= StopAfterAttempt

\* What the call of fetch_url has come to after these attempts: the response,
\* another attempt, the exception itself (not one to retry), or tenacity's
\* RetryError when the attempts are used up.
FetchState(attempts) ==
    LET last == attempts[Len(attempts)]
    IN  IF last = "200" THEN "resp"
        ELSE IF ~retry_if_exception_type(last) THEN "raise"
        ELSE IF stop_after_attempt(Len(attempts)) THEN "RetryError"
        ELSE "retry"

\* scrape_lee, one row of the rendered registry: [Name, DOB, Address, Charges]
scrape_lee_registry_row(cols) ==
    IF Len(cols) >= 4 /\ str_strip(cols[1]) # <<>>
    THEN << [Name    |-> str_strip(cols[1]),
             Date    |-> Unknown,
             County  |-> <<"L", "e", "e">>,
             Source  |-> <<"L", "e", "e", " ", "R", "e", "g", "i", "s", "t", "r", "y">>,
             Type    |-> <<"C", "o", "n", "v", "i", "c", "t", "e", "d">>,
             Details |-> <<"D", "O", "B", ":", " ">> \o str_strip(cols[2])
                         \o <<" ", "|", " ", "C", "h", "a", "r", "g", "e", "s", ":", " ">> \o str_strip(cols[4])
                         \o <<" ", "|", " ", "A", "d", "d", "r", "e", "s", "s", ":", " ">> \o str_strip(cols[3])] >>
    ELSE <<>>

\* The records of one rendered page: rows of "table tbody tr".
RegistryRecords(rows) ==
    Flatten([i \in 1..Len(rows) |-> scrape_lee_registry_row(rows[i])])

(***************************************************************************)
(* Bounds and inputs                                                       *)
(***************************************************************************)

\* The most source rows one normalization run reads.
MaxRows == 3

PolkCells(name, addr, date) ==
    [src |-> "polk", cells |-> <<name, addr, <<"x">>, date, <<"x">>, <<"x">>>>]

BrowardCells(name, date) ==
    [src |-> "broward", cells |-> <<name, <<"x">>, <<"x">>, <<"7">>, date, <<"x">>>>]

HillsboroughCells(row_data) == [src |-> "hillsborough", cells |-> row_data]

\* The enjoined-list row of the scenario: both name columns, an empty date.
DoeJohnRow ==
    HillsboroughCells(
        [c \in {"Last Name", "First Name", "Start Date", "Case Number"} |->
            IF c = "Last Name" THEN <<"D", "O", "E">>
            ELSE IF c = "First Name" THEN <<"J", "O", "H", "N">>
            ELSE IF c = "Case Number" THEN <<"7">>
            ELSE <<>>])

\* The same row in a table whose date column is headed 'Date'.
DoeJohnDateRow ==
    HillsboroughCells(
        [c \in {"Last Name", "First Name", "Date"} |->
            IF c = "Last Name" THEN <<"D", "O", "E">>
            ELSE IF c = "First Name" THEN <<"J", "O", "H", "N">>
            ELSE <<>>])

\* A header row repeated inside the table.
HeaderAgainRow ==
    HillsboroughCells(
        [c \in {"Last Name", "First Name", "Start Date"} |->
            IF c = "Last Name" THEN <<"L", "a", "s", "t", " ", "N", "a", "m", "e">>
            ELSE IF c = "First Name" THEN <<"F", "i", "r", "s", "t", " ", "N", "a", "m", "e">>
            ELSE <<"S", "t", "a", "r", "t", " ", "D", "a", "t", "e">>])

JaneSlash == PolkCells(<<"J", "a", "n", "e", " ", "R", "o", "e">>, <<"a">>, <<"0", "1", "/", "0", "2", "/", "2", "0", "2", "0">>)

JaneIso == PolkCells(<<"J", "A", "N", "E", " ", "R", "O", "E">>, <<"b">>, <<"2", "0", "2", "0", "-", "0", "1", "-", "0", "2">>)

DoeJohnComma == BrowardCells(<<"D", "o", "e", ",", " ", "J", "o", "h", "n">>, <<"0", "3", "/", "0", "4", "/", "2", "0", "2", "1">>)

\* A row of six cells whose name cell is empty.
NoNameRow == PolkCells(<<>>, <<"a">>, <<"0", "1", "/", "0", "2", "/", "2", "0", "2", "0">>)

\* The source rows the extractors read in the model.
SourceRows ==
    { JaneSlash,
      JaneIso,
      PolkCells(<<"J", "a", "n", "e", " ", " ", "R", "o", "e">>, <<"c">>, <<"J", "a", "n", " ", "2", ",", " ", "2", "0", "2", "0">>),
      PolkCells(<<"A", "l", " ", "P", "o", "e">>, <<"a">>, <<>>),
      PolkCells(<<"A", "l", " ", "P", "o", "e">>, <<"b">>, <<"N", "/", "A">>),
      PolkCells(<<"A", "l", " ", "P", "o", "e">>, <<"c">>, <<"0", "1", "/", "0", "2", "/", "2", "0", "2", "0">>),
      [src |-> "polk", cells |-> <<<<"A", "l", " ", "P", "o", "e">>, <<"a">>, <<"x">>, <<"0", "1", "/", "0", "2", "/", "2", "0", "2", "0">>, <<"x">>>>],
      DoeJohnComma,
      DoeJohnRow,
      DoeJohnDateRow,
      HeaderAgainRow,
      NoNameRow }

SourceTables == UNION {[1..n -> SourceRows] : n \in 0..MaxRows}
\* Date texts are built for months 0..MaxMonth and days 0..MaxDay, so that
\* months and days beyond the calendar are among them.
MaxMonth == 13

MaxDay == 32

\* Years at and around the ends of the Timestamp range, leap and common years.
DateYears == {1677, 1900, 2020, 2023, 2262, 2263}

\* The day (y, m, d) written the way one of the registries writes dates.
DateText(fmt, y, m, d) ==
    IF fmt = "mm/dd/yyyy"
    THEN ZeroPad(m, 2) \o <<"/">> \o ZeroPad(d, 2) \o <<"/">> \o ZeroPad(y, 4)
    ELSE IF fmt = "m/d/yyyy"
    THEN ZeroPad(m, 1) \o <<"/">> \o ZeroPad(d, 1) \o <<"/">> \o ZeroPad(y, 4)
    ELSE IF fmt = "yyyy-mm-dd"
    THEN ZeroPad(y, 4) \o <<"-">> \o ZeroPad(m, 2) \o <<"-">> \o ZeroPad(d, 2)
    ELSE IF fmt = "yyyy/mm/dd"
    THEN ZeroPad(y, 4) \o <<"/">> \o ZeroPad(m, 2) \o <<"/">> \o ZeroPad(d, 2)
    ELSE IF fmt = "mm-dd-yyyy"
    THEN ZeroPad(m, 2) \o <<"-">> \o ZeroPad(d, 2) \o <<"-">> \o ZeroPad(y, 4)
    ELSE \* "Mon d, yyyy"
         (IF m \in 1..12 THEN SubSeq(MonthNames[m], 1, 3) ELSE <<"X", "y", "z">>)
         \o <<" ">> \o ZeroPad(d, 1) \o <<",", " ">> \o ZeroPad(y, 4)

DateFormats ==
    {"mm/dd/yyyy", "m/d/yyyy", "yyyy-mm-dd", "yyyy/mm/dd", "mm-dd-yyyy", "Mon d, yyyy"}

\* Date cells that hold no date, or hold it inside other text or whitespace.
OddDateTexts ==
    { <<>>, NA, Unknown, <<"n", "/", "a">>, <<"P", "e", "n", "d", "i", "n", "g">>, <<" ">>, <<"-">>, <<"/", "/">>,
      <<"0", "1", "/", "0", "2", "/", "2", "0", "2", "0", " ">>, <<"\t", "2", "0", "2", "0", "-", "0", "1", "-", "0", "2", "\n">>, <<"0", "1", " ", "/", "0", "2", "/", "2", "0", "2", "0">>, <<"2", "0", "2", "0", "-", "0", "1">>,
      <<"0", "1", "/", "0", "2">>, <<"2", "0", "2", "0">>, <<"0", "0", "0", "0", "-", "0", "0", "-", "0", "0">>, <<"S", "e", "e", " ", "c", "a", "s", "e", " ", "f", "i", "l", "e">> }

DateTexts ==
    OddDateTexts \cup
    { DateText(f, y, m, d) :
        f \in DateFormats, y \in DateYears, m \in 0..MaxMonth, d \in 0..MaxDay }

\* The most data rows of a page, and the most cells of a row.
MaxDataRows == 3

MaxCells == 7

\* A row of n cells; cell k of it reads "r<n>c<k>".
PlainRow(n) == [k \in 1..n |-> <<"r", DigitChar(n), "c", DigitChar(k)>>]

\* A row of six cells without text.
EmptyRow == [k \in 1..6 |-> <<>>]

\* A full Manatee row with a conviction as its disposition and no
\* disposition date.
ConvictedRow ==
    <<<<"7">>, <<"A", "l", " ", "P", "o", "e">>, <<"M", "M">>, <<"0", "1", "/", "0", "2", "/", "2", "0", "2", "0">>, <<>>, <<"C", "o", "n", "v", "i", "c", "t", "e", "d", " ", "a", "t", " ", "t", "r", "i", "a", "l">>>>

PageRows == {PlainRow(n) : n \in 0..MaxCells} \cup {EmptyRow, ConvictedRow}

\* The header row: <th> cells, or <td> cells holding the column titles.
HeaderRows == {<<>>, [k \in 1..6 |-> <<"H", DigitChar(k)>>]}

Pages ==
    {NoTable, Table(<<>>)}
    \cup { Table(<<h>> \o body) :
             h \in HeaderRows,
             body \in UNION {[1..n -> PageRows] : n \in 0..MaxDataRows} }

\* The most lines of a PDF text.
MaxLines == 3

\* The lines the text of the PDF is made of: anchors, fields, continuation
\* lines, a blank line, a title, and a line whose colon comes after more than
\* KeyLength characters.
SeminoleLines ==
    { <<"N", "a", "m", "e", ":", " ", "J", "o", "h", "n", " ", "D", "o", "e">>,
      <<"N", "a", "m", "e", ":", " ", "J", "a", "n", "e">>,
      <<"n", "a", "m", "e", ":", " ", "A", "l", " ", "P", "o", "e">>,
      <<" ", " ", "N", "a", "m", "e", ":", " ", "I", "n", "d", "e", "n", "t", "e", "d">>,
      <<"D", "o", "g", " ", "N", "a", "m", "e", ":", " ", "R", "e", "x">>,
      <<"A", "d", "j", "u", "d", "i", "c", "a", "t", "i", "o", "n", " ", "D", "a", "t", "e", ":", " ", "0", "1", "/", "0", "2", "/", "2", "0", "2", "0">>,
      <<"O", "f", "f", "e", "n", "s", "e", ":", " ", "C", "r", "u", "e", "l", "t", "y">>,
      <<"t", "o", " ", "a", "n", "i", "m", "a", "l", "s">>,
      <<"A", "n", "i", "m", "a", "l", " ", "A", "b", "u", "s", "e", " ", "R", "e", "g", "i", "s", "t", "r", "y", " ", "R", "e", "p", "o", "r", "t">>,
      <<"t", "h", "e", " ", "d", "e", "f", "e", "n", "d", "a", "n", "t", " ", "s", "h", "a", "l", "l", " ", "n", "o", "t", " ", "o", "w", "n", " ", "p", "e", "t", "s", ":", " ", "n", "o", "n", "e">>,
      <<>> }

Texts == UNION {[1..n -> SeminoleLines] : n \in 0..MaxLines}

\* The most pages the rendered registry shows.
MaxPages == 2

\* The enjoined-list pages of the model.
EnjoinedPages ==
    { NoTable,
      Table(<< <<>>, <<<<"A", "l", " ", "P", "o", "e">>, <<"7">>, <<"0", "1", "/", "0", "2", "/", "2", "0", "2", "0">>>> >>),
      Table(<< <<>>, <<<<"A", "l", " ", "P", "o", "e">>, <<"7">>, <<"0", "1", "/", "0", "2", "/", "2", "0", "2", "0">>>>, <<<<"J", "a", "n", "e", " ", "R", "o", "e">>, <<"8">>>> >>) }

\* The pages of the rendered registry of the model.
RegistryRows ==
    { <<<<"D", "o", "e", ",", " ", "J", "o", "h", "n">>, <<"1", "/", "1", "/", "1", "9", "8", "0">>, <<"1", " ", "M", "a", "i", "n", " ", "S", "t">>, <<"C", "r", "u", "e", "l", "t", "y">>>>,
      <<<<"R", "o", "e", ",", " ", "J", "a", "n", "e", " ">>, <<"2", "/", "2", "/", "1", "9", "9", "0">>, <<"2", " ", "M", "a", "i", "n", " ", "S", "t">>, <<"N", "e", "g", "l", "e", "c", "t">>>>,
      <<<<" ">>, <<"x">>, <<"x">>, <<"x">>>> }

RegistryPages == {<<>>} \cup {<<r>> : r \in RegistryRows}

Registries == UNION {[1..n -> RegistryPages] : n \in 0..MaxPages}

(***************************************************************************)
(* State                                                                   *)
(***************************************************************************)

VARIABLES
    stage,      \* the normalization run: "idle", "rows", "data", "once", "twice"
    rows,       \* the source rows read
    data,       \* the records the extractors appended
    once,       \* standardize_data(DataFrame(data))
    twice,      \* standardize_data(once)
    dateIn,     \* a Date cell handed to standardize_data
    dateOut,    \* the Date of that row when standardize_data has returned
    dateDone    \* standardize_data has returned

VARIABLES
    pc,          \* where main is: "start", "dispatch", "collect", "merge",
                 \* "open", "clear", "update", "csv", "finish", "exited"
    DRY_RUN,     \* '--dry-run' in sys.argv
    WEBHOOK_URL, \* ALERT_WEBHOOK_URL is set
    credentials, \* the Google credentials found: "valid", "absent", "malformed"
    gc,          \* get_gspread_client() returned a client (not None)
    futures,     \* per task: its state in the pool and what it returned
    results,     \* the non-empty tables collected, in collection order
    master_df,   \* standardize_data(pd.concat(results))
    sheet,       \* the Master_Registry worksheet of the spreadsheet
    csv_file,    \* dry_run_master.csv
    alerts,      \* the calls of alert_failure, in order
    posts,       \* the alerts posted to the webhook, in order
    exit_code    \* the exit status of the process; -1 while it runs

VARIABLES
    extractor,   \* the extractor that reads a fetched document
    content,     \* the document: the rows of a page, or the lines of a PDF
    records,     \* the records the extractor appended to data
    parsed       \* the extractor has read the document

VARIABLES
    lee_pc,      \* where scrape_lee is: "import", "import_error", "fetch",
                 \* "parse", "driver", "get", "page", "quit", "return", "done"
    TENACITY_AVAILABLE, \* the import of tenacity succeeded
    responses,   \* what the attempts of the fetch_url call ended with
    enjoined,    \* the page of the enjoined list
    registry,    \* the pages of the rendered registry search
    page_num,    \* page_num of the pagination loop
    pages_read,  \* the pages whose rows have been extracted
    lee_data,    \* data of scrape_lee
    lee_alerts,  \* the calls of alert_failure by scrape_lee
    lee_ret      \* what the call of scrape_lee returned

VARIABLES
    loop_pc,     \* where a paginated extractor is: "open", "table", "rows",
                 \* "next", "exit", "done"
    scraper,     \* the paginated extractor that runs
    site,        \* the pages of the rendered site
    shown,       \* the page the browser shows
    found,       \* rows: the row elements located on the page shown
    turns,       \* the turns of the page loop begun so far
    clicks,      \* the state of each next-page control that was clicked
    stale,       \* the rows that went stale: turn, row and moment
    out_data,    \* data of the extractor
    out_alerts   \* the calls of alert_failure by the extractor

stdVars == <<stage, rows, data, once, twice>>

dateVars == <<dateIn, dateOut, dateDone>>

mainVars ==
    <<pc, DRY_RUN, WEBHOOK_URL, credentials, gc, futures, results, master_df,
      sheet, csv_file, alerts, posts, exit_code>>

pageVars == <<extractor, content, records, parsed>>

leeVars ==
    <<lee_pc, TENACITY_AVAILABLE, responses, enjoined, registry, page_num, pages_read, lee_data,
      lee_alerts, lee_ret>>

renderVars ==
    <<loop_pc, scraper, site, shown, found, turns, clicks, stale, out_data,
      out_alerts>>

vars == <<stdVars, dateVars, mainVars, pageVars, leeVars, renderVars>>

StdIdle ==
    /\ stage = "idle"
    /\ rows = <<>>
    /\ data = <<>>
    /\ once = <<>>
    /\ twice = <<>>

DateIdle ==
    /\ dateIn = <<>>
    /\ dateOut = <<>>
    /\ dateDone = FALSE

PageIdle ==
    /\ extractor = "none"
    /\ content = NoTable
    /\ records = <<>>
    /\ parsed = FALSE

NotReturned == [returned |-> FALSE, df |-> <<>>]

LeeIdle ==
    /\ lee_pc = "idle"
    /\ TENACITY_AVAILABLE = TRUE
    /\ responses = <<>>
    /\ enjoined = NoTable
    /\ registry = <<>>
    /\ page_num = 1
    /\ pages_read = 0
    /\ lee_data = <<>>
    /\ lee_alerts = <<>>
    /\ lee_ret = NotReturned

RenderIdle ==
    /\ loop_pc = "idle"
    /\ scraper = "none"
    /\ site = <<>>
    /\ shown = 1
    /\ found = <<>>
    /\ turns = 0
    /\ clicks = <<>>
    /\ stale = {}
    /\ out_data = <<>>
    /\ out_alerts = <<>>

(***************************************************************************)
(* The run: tasks, sink and local file                                     *)
(***************************************************************************)

\* The pool never runs more than MAX_WORKERS tasks at once (12 in the code,
\* for its 18 tasks; the model keeps the pool smaller than its task list).
MAX_WORKERS == 2

\* A Broward row dated the same day as the Polk row JaneSlash.
RoeJaneComma == BrowardCells(<<"R", "o", "e", ",", " ", "J", "a", "n", "e">>, <<"1", "/", "2", "/", "2", "0", "2", "0">>)

\* The task list of main, cut to three of its extractors.
tasks == <<"scrape_polk", "scrape_broward", "scrape_hillsborough">>

TaskIds == 1..Len(tasks)

\* The source rows a task may find: one row, or two.
TaskRows(t) ==
    IF tasks[t] = "scrape_polk"
    THEN { <<JaneSlash>>,
           <<PolkCells(<<"J", "a", "n", "e", " ", "R", "o", "e">>, <<"b">>, <<"2", "0", "2", "0", "-", "0", "1", "-", "0", "2">>),
             PolkCells(<<"A", "l", " ", "P", "o", "e">>, <<"c">>, <<"0", "1", "/", "0", "2", "/", "2", "0", "2", "0">>)>> }
    ELSE IF tasks[t] = "scrape_broward"
    THEN { <<DoeJohnComma>>,
           <<RoeJaneComma>>,
           <<RoeJaneComma, DoeJohnComma>> }
    ELSE { <<DoeJohnRow>>, <<DoeJohnRow, DoeJohnDateRow>> }

\* What future.result() of a task can do: raise, or return the task's
\* DataFrame, which is empty when the extractor found or kept nothing. fetch
\* tells what the extractor's call of fetch_url (driver.get in scrape_broward)
\* ended with: the response, or the exception left after the last attempt.
Raised == [raised |-> TRUE, df |-> <<>>, fetch |-> "resp"]

Returned(df) == [raised |-> FALSE, df |-> df, fetch |-> "resp"]

\* The extractor without its try/except: the exception of the fetch leaves
\* the function.
scrape_uncaught(fetched, rs) ==
    IF fetched = "RetryError"
    THEN [raised |-> TRUE, df |-> <<>>, fetch |-> fetched]
    ELSE [raised |-> FALSE, df |-> DataFrame(ExtractRows(rs)), fetch |-> fetched]

\* The extractor seen from main: try: fetch, rows to data; except Exception:
\* alert_failure(...); return pd.DataFrame(data). A failed fetch leaves data
\* as it was, empty.
scrape(fetched, rs) ==
    IF fetched = "RetryError"
    THEN [raised |-> FALSE, df |-> DataFrame(<<>>), fetch |-> fetched]
    ELSE [raised |-> FALSE, df |-> DataFrame(ExtractRows(rs)), fetch |-> fetched]

TaskOutcomes(t) ==
    {Raised}
    \cup {scrape(fetched, rs) :
             fetched \in {"resp", "RetryError"}, rs \in TaskRows(t) \cup {<<>>}}

\* master_df.columns.tolist(): the keys in the order the extractors write them.
ColumnOrder == <<"Name", "Date", "County", "Source", "Type", "Details">>

\* [master_df.columns.tolist()] + master_df.astype(str).values.tolist()
SheetValues(df) ==
    << (IF df = <<>> THEN <<>> ELSE ColumnOrder) >>
    \o [i \in 1..Len(df) |-> [k \in 1..Len(ColumnOrder) |-> df[i][ColumnOrder[k]]]]

\* What an earlier run left in the worksheet: a header row and three rows.
PriorValues ==
    SheetValues(DataFrame(ExtractRows(<<DoeJohnComma, JaneSlash, DoeJohnRow>>)))

\* wks.update(values): the values are written from cell A1 on; a cell outside
\* the written range keeps what it held.
update(old, values) ==
    [i \in 1..(IF Len(old) > Len(values) THEN Len(old) ELSE Len(values)) |->
        IF i > Len(values) THEN old[i]
        ELSE IF i > Len(old) THEN values[i]
        ELSE values[i] \o SubSeq(old[i], Len(values[i]) + 1, Len(old[i]))]

\* The worksheet: whether it exists, the rows it holds, and whether
\* wks.clear() of this run has been carried out on it.
NoSheet == [exists |-> FALSE, values |-> <<>>, cleared |-> FALSE]

\* The worksheet an earlier run left.
PriorSheet == [exists |-> TRUE, values |-> PriorValues, cleared |-> FALSE]

MASTER_TAB_NAME == "Master_Registry"

\* The worksheets main opens, creates or writes in the spreadsheet: the one
\* named MASTER_TAB_NAME, whose state is sheet.
Worksheets(master) == [tab \in {MASTER_TAB_NAME} |-> master]

\* dry_run_master.csv: whether it was written, the rows it holds, and whether
\* to_csv raised (which main only logs).
NoFile == [written |-> FALSE, values |-> <<>>, error |-> FALSE]

\* The tasks of the list that open a browser: with SeleniumDriver() as driver.
RenderTasks == {"scrape_broward", "scrape_hillsborough"}

\* A future: its state in the pool, what the task returned, and the browser
\* of the task: "none", "started" (webdriver.Chrome(...) has returned, inside
\* __enter__), "open" (inside the with block), "closed" (quit by __exit__;
\* "none" again when the task is over), "orphan" (started, and never to be
\* quit).
NotSubmitted == [state |-> "none", out |-> Returned(<<>>), session |-> "none"]

MainIdle ==
    /\ pc = "idle"
    /\ DRY_RUN = FALSE
    /\ WEBHOOK_URL = FALSE
    /\ credentials = "absent"
    /\ gc = FALSE
    /\ futures = [t \in TaskIds |-> NotSubmitted]
    /\ results = <<>>
    /\ master_df = <<>>
    /\ sheet = NoSheet
    /\ csv_file = NoFile
    /\ alerts = <<>>
    /\ posts = <<>>
    /\ exit_code = -1

(***************************************************************************)
(* The normalization run: extract, standardize, standardize the output     *)
(***************************************************************************)

StdInit ==
    /\ stage = "rows"
    /\ rows \in SourceTables
    /\ data = <<>>
    /\ once = <<>>
    /\ twice = <<>>
    /\ DateIdle
    /\ RenderIdle
    /\ MainIdle
    /\ PageIdle
    /\ LeeIdle

\* The extractors map the rows to records.
Extract ==
    /\ stage = "rows"
    /\ data' = ExtractRows(rows)
    /\ stage' = "data"
    /\ UNCHANGED <<rows, once, twice, dateVars, mainVars, pageVars, leeVars, renderVars>>

\* standardize_data on the extracted records.
Standardize ==
    /\ stage = "data"
    /\ once' \in standardize_data(DataFrame(data))
    /\ stage' = "once"
    /\ UNCHANGED <<rows, data, twice, dateVars, mainVars, pageVars, leeVars, renderVars>>

\* standardize_data on its own output.
Restandardize ==
    /\ stage = "once"
    /\ twice' \in standardize_data(once)
    /\ stage' = "twice"
    /\ UNCHANGED <<rows, data, once, dateVars, mainVars, pageVars, leeVars, renderVars>>

StdNext == Extract \/ Standardize \/ Restandardize

SpecStd == StdInit /\ [][StdNext]_vars

(***************************************************************************)
(* One Date cell through standardize_data                                  *)
(***************************************************************************)

\* A one-row table whose Date cell is s.
DateRow(s) ==
    << [Name |-> <<"A", "l", " ", "P", "o", "e">>, Date |-> s, County |-> <<"P", "o", "l", "k">>,
        Source |-> <<"P", "o", "l", "k", " ", "R", "e", "g", "i", "s", "t", "r", "y">>, Type |-> <<"C", "o", "n", "v", "i", "c", "t", "e", "d">>,
        Details |-> <<>>] >>

DateInit ==
    /\ StdIdle
    /\ RenderIdle
    /\ MainIdle
    /\ PageIdle
    /\ LeeIdle
    /\ dateIn \in DateTexts
    /\ dateOut = <<>>
    /\ dateDone = FALSE

\* standardize_data on the one-row table; its Date afterwards.
StandardizeDate ==
    /\ ~dateDone
    /\ \E out \in standardize_data(DataFrame(DateRow(dateIn))) :
           dateOut' = out[1].Date
    /\ dateDone' = TRUE
    /\ UNCHANGED <<dateIn, stdVars, mainVars, pageVars, leeVars, renderVars>>

DateNext == StandardizeDate

SpecDate == DateInit /\ [][DateNext]_vars

(***************************************************************************)
(* One fetched document through its extractor                              *)
(***************************************************************************)

PageInit ==
    /\ StdIdle
    /\ RenderIdle
    /\ DateIdle
    /\ MainIdle
    /\ LeeIdle
    /\ \/ extractor \in StaticExtractors /\ content \in Pages
       \/ extractor = "scrape_seminole" /\ content \in Texts
    /\ records = <<>>
    /\ parsed = FALSE

\* The row loop of a static-table extractor over the fetched page.
ParseTable ==
    /\ ~parsed
    /\ extractor \in StaticExtractors
    /\ records' = TableRecords(extractor, content)
    /\ parsed' = TRUE
    /\ UNCHANGED <<extractor, content, stdVars, dateVars, mainVars, leeVars, renderVars>>

\* scrape_seminole on the lines of the PDF.
ParseText ==
    /\ ~parsed
    /\ extractor = "scrape_seminole"
    /\ records' = TextRecords(content)
    /\ parsed' = TRUE
    /\ UNCHANGED <<extractor, content, stdVars, dateVars, mainVars, leeVars, renderVars>>

PageNext == ParseTable \/ ParseText

SpecPage == PageInit /\ [][PageNext]_vars

(***************************************************************************)
(* One call of scrape_lee                                                  *)
(***************************************************************************)

LeeInit ==
    /\ StdIdle
    /\ RenderIdle
    /\ DateIdle
    /\ MainIdle
    /\ PageIdle
    /\ lee_pc = "import"
    /\ TENACITY_AVAILABLE \in BOOLEAN
    /\ responses = <<>>
    /\ enjoined \in EnjoinedPages
    /\ registry \in Registries
    /\ page_num = 1
    /\ pages_read = 0
    /\ lee_data = <<>>
    /\ lee_alerts = <<>>
    /\ lee_ret = NotReturned

\* The module is loaded. The decorator of fetch_url is evaluated then:
\* stop_after_attempt(3), wait_exponential(...) and, with tenacity,
\* retry_if_exception_type(...). Without tenacity the three names are None
\* (line 43), so stop_after_attempt(3) calls None and raises TypeError: the
\* load ends there and no function of the module is ever called.
ImportModule ==
    /\ lee_pc = "import"
    /\ lee_pc' = IF TENACITY_AVAILABLE THEN "fetch" ELSE "import_error"
    /\ UNCHANGED <<TENACITY_AVAILABLE, responses, enjoined, registry, page_num,
                   pages_read, lee_data, lee_alerts, lee_ret>>
    /\ UNCHANGED <<stdVars, dateVars, mainVars, pageVars, renderVars>>

\* One attempt of fetch_url on the enjoined list. The response goes to the
\* parser; a failed attempt is repeated while tenacity allows it; otherwise
\* the exception leaves fetch_url and 'except Exception' of the first section
\* alerts it.
Request ==
    /\ lee_pc = "fetch"
    /\ \E r \in Responses :
           /\ responses' = Append(responses, r)
           /\ LET state == FetchState(Append(responses, r))
              IN  IF state = "resp"
                  THEN lee_pc' = "parse" /\ UNCHANGED lee_alerts
                  ELSE IF state = "retry"
                  THEN lee_pc' = "fetch" /\ UNCHANGED lee_alerts
                  ELSE /\ lee_pc' = "driver"
                       /\ lee_alerts' = Append(lee_alerts, "Lee Enjoined failed")
    /\ UNCHANGED <<TENACITY_AVAILABLE, enjoined, registry, page_num, pages_read,
                   lee_data, lee_ret>>
    /\ UNCHANGED <<stdVars, dateVars, mainVars, pageVars, renderVars>>

\* The rows of the enjoined list.
ParseEnjoined ==
    /\ lee_pc = "parse"
    /\ lee_data' = lee_data \o TableRecords("scrape_lee", enjoined)
    /\ lee_pc' = "driver"
    /\ UNCHANGED <<TENACITY_AVAILABLE, responses, enjoined, registry, page_num, pages_read,
                   lee_alerts, lee_ret>>
    /\ UNCHANGED <<stdVars, dateVars, mainVars, pageVars, renderVars>>

\* The exception of the second section reaches its 'except Exception': it is
\* alerted and what data holds is discarded.
CatchRegistry_discard ==
    /\ lee_alerts' = Append(lee_alerts, "Lee Registry Selenium failed")
    /\ lee_data' = <<>>
    /\ lee_pc' = "return"

\* The exception of the second section reaches its 'except Exception': it is
\* alerted, and the function goes on to its return statement.
CatchRegistry ==
    /\ lee_alerts' = Append(lee_alerts, "Lee Registry Selenium failed")
    /\ lee_data' = lee_data
    /\ lee_pc' = "return"

\* with SeleniumDriver() as driver: the browser starts, or does not.
StartDriver ==
    /\ lee_pc = "driver"
    /\ \/ lee_pc' = "get" /\ UNCHANGED <<lee_alerts, lee_data>>
       \/ CatchRegistry
    /\ UNCHANGED <<TENACITY_AVAILABLE, responses, enjoined, registry, page_num, pages_read, lee_ret>>
    /\ UNCHANGED <<stdVars, dateVars, mainVars, pageVars, renderVars>>

\* driver.get(...) and the wait for the first table; a timeout of the wait
\* is only logged.
GetRegistry ==
    /\ lee_pc = "get"
    /\ \/ lee_pc' = "page" /\ UNCHANGED <<lee_alerts, lee_data>>
       \/ CatchRegistry
    /\ UNCHANGED <<TENACITY_AVAILABLE, responses, enjoined, registry, page_num, pages_read, lee_ret>>
    /\ UNCHANGED <<stdVars, dateVars, mainVars, pageVars, renderVars>>

\* One turn of the pagination loop: the rows of the page are extracted, then
\* the next page is opened, or the loop ends because there is none or
\* because the wait for it failed; an exception inside the turn is logged
\* and ends the loop.
ReadPage ==
    /\ lee_pc = "page"
    /\ \/ /\ lee_pc' = "quit"
          /\ UNCHANGED <<lee_data, page_num, pages_read>>
       \/ /\ lee_data' = lee_data \o
                 (IF page_num <= Len(registry)
                  THEN RegistryRecords(registry[page_num]) ELSE <<>>)
          /\ pages_read' = pages_read + 1
          /\ \/ /\ page_num < Len(registry)
                /\ page_num' = page_num + 1
                /\ lee_pc' \in {"page", "quit"}
             \/ /\ page_num >= Len(registry)
                /\ lee_pc' = "quit"
                /\ UNCHANGED page_num
    /\ UNCHANGED <<TENACITY_AVAILABLE, responses, enjoined, registry, lee_alerts, lee_ret>>
    /\ UNCHANGED <<stdVars, dateVars, mainVars, pageVars, renderVars>>

\* SeleniumDriver.__exit__: driver.quit(), which can raise as well.
QuitDriver ==
    /\ lee_pc = "quit"
    /\ \/ lee_pc' = "return" /\ UNCHANGED <<lee_alerts, lee_data>>
       \/ CatchRegistry
    /\ UNCHANGED <<TENACITY_AVAILABLE, responses, enjoined, registry, page_num, pages_read, lee_ret>>
    /\ UNCHANGED <<stdVars, dateVars, mainVars, pageVars, renderVars>>

\* return pd.DataFrame(data)
ReturnLee ==
    /\ lee_pc = "return"
    /\ lee_ret' = [returned |-> TRUE, df |-> DataFrame(lee_data)]
    /\ lee_pc' = "done"
    /\ UNCHANGED <<TENACITY_AVAILABLE, responses, enjoined, registry, page_num, pages_read,
                   lee_data, lee_alerts>>
    /\ UNCHANGED <<stdVars, dateVars, mainVars, pageVars, renderVars>>

LeeNext ==
    \/ ImportModule
    \/ Request
    \/ ParseEnjoined
    \/ StartDriver
    \/ GetRegistry
    \/ ReadPage
    \/ QuitDriver
    \/ ReturnLee

SpecLee == LeeInit /\ [][LeeNext]_vars

(***************************************************************************)
(* One call of a paginated extractor on a rendered site                    *)
(***************************************************************************)

\* scrape_hillsborough, one row of the rendered registry:
\* [Name, DOB, Address, Charges]
scrape_hillsborough_registry_row(cols) ==
    IF Len(cols) >= 4
    THEN << [Name    |-> cols[1],
             Date    |-> Unknown,
             County  |-> <<"H", "i", "l", "l", "s", "b", "o", "r", "o", "u", "g", "h">>,
             Source  |-> <<"H", "i", "l", "l", "s", "b", "o", "r", "o", "u", "g", "h", " ", "R", "e", "g", "i", "s", "t", "r", "y">>,
             Type    |-> <<"C", "o", "n", "v", "i", "c", "t", "e", "d">>,
             Details |-> <<"D", "O", "B", ":", " ">> \o cols[2] \o <<" ", "|", " ", "A", "d", "d", "r", "e", "s", "s", ":", " ">> \o cols[3]
                         \o <<" ", "|", " ", "C", "h", "a", "r", "g", "e", "s", ":", " ">> \o cols[4]] >>
    ELSE <<>>

\* scrape_leon, one row of the rendered grid:
\* [Name, Address, Offense Date, Conviction Date, Exp. Date, Offense]
scrape_leon_row(cols) ==
    IF Len(cols) >= 6
    THEN << [Name    |-> cols[1],
             Date    |-> cols[4],
             County  |-> <<"L", "e", "o", "n">>,
             Source  |-> <<"T", "a", "l", "l", "a", "h", "a", "s", "s", "e", "e", "/", "L", "e", "o", "n", " ", "R", "e", "g", "i", "s", "t", "r", "y">>,
             Type    |-> <<"C", "o", "n", "v", "i", "c", "t", "e", "d">>,
             Details |-> <<"A", "d", "d", "r", "e", "s", "s", ":", " ">> \o cols[2] \o <<" ", "|", " ", "O", "f", "f", "e", "n", "s", "e", " ", "D", "a", "t", "e", ":", " ">> \o cols[3]
                         \o <<" ", "|", " ", "E", "x", "p", "i", "r", "a", "t", "i", "o", "n", ":", " ">> \o cols[5] \o <<" ", "|", " ", "O", "f", "f", "e", "n", "s", "e", ":", " ">> \o cols[6]] >>
    ELSE <<>>

\* scrape_orange, one row of the paged table:
\* [Name, Offense, Conviction Date, Address]
scrape_orange_row(cols) ==
    IF Len(cols) >= 4
    THEN << [Name    |-> cols[1],
             Date    |-> cols[3],
             County  |-> <<"O", "r", "a", "n", "g", "e">>,
             Source  |-> <<"O", "r", "a", "n", "g", "e", " ", "R", "e", "g", "i", "s", "t", "r", "y">>,
             Type    |-> <<"C", "o", "n", "v", "i", "c", "t", "e", "d">>,
             Details |-> <<"O", "f", "f", "e", "n", "s", "e", ":", " ">> \o cols[2] \o <<" ", "|", " ", "A", "d", "d", "r", "e", "s", "s", ":", " ">> \o cols[4]] >>
    ELSE <<>>

\* The extractors that turn the pages of a rendered site.
PaginatedExtractors ==
    {"scrape_lee", "scrape_hillsborough", "scrape_broward", "scrape_leon",
     "scrape_orange"}

\* The two that read an ASP.NET grid.
GridExtractors == {"scrape_broward", "scrape_leon"}

\* The records one row element gives when its cells are read.
RenderedRow(name, cols) ==
    IF name = "scrape_lee" THEN scrape_lee_registry_row(cols)
    ELSE IF name = "scrape_hillsborough" THEN scrape_hillsborough_registry_row(cols)
    ELSE IF name = "scrape_broward" THEN scrape_broward_row(cols)
    ELSE IF name = "scrape_leon" THEN scrape_leon_row(cols)
    ELSE scrape_orange_row(cols)

\* The records of the rows located on a page, those in skipped left out.
RenderedRecords(name, located, skipped) ==
    Flatten([i \in 1..Len(located) |->
                IF i \in skipped THEN <<>> ELSE RenderedRow(name, located[i].cols)])

\* A <tr> element: its class attribute and the texts of its <td> cells.
Tr(class, cols) == [class |-> class, cols |-> cols]

DoeTr == Tr(<<>>, <<<<"D", "o", "e", ",", " ", "J", "o", "h", "n">>, <<"a">>, <<"b">>, <<"c">>, <<"0", "1", "/", "0", "2", "/", "2", "0", "2", "0">>, <<"d">>>>)

RoeTr == Tr(<<>>, <<<<"R", "o", "e", ",", " ", "J", "a", "n", "e">>, <<"e">>, <<"f">>, <<"g">>, <<"0", "3", "/", "0", "4", "/", "2", "0", "2", "1">>, <<"h">>>>)

\* The pager row of an ASP.NET grid.
PagerTr == Tr(<<"g", "r", "i", "d", "P", "a", "g", "e", "r">>, <<<<"1", " ", "2", " ", ">">>>>)

\* The rows a page of the model's sites shows under its header row.
SitePageRows == {<<>>, <<DoeTr>>, <<RoeTr, PagerTr>>, <<DoeTr, RoeTr>>}

\* The next-page control of a page: not there, there but disabled, or there
\* and enabled.
Controls == {"absent", "disabled", "enabled"}

\* The most pages a site of the model has.
MaxSitePages == 2

\* The most turns of the page loop that are followed.
MaxTurns == 3

\* The sites: every page but the last has an enabled next-page control, the
\* last page has none or a disabled one.
Sites ==
    UNION {{[i \in 1..n |->
                [rows |-> rs[i],
                 next |-> IF i < n THEN "enabled" ELSE last]] :
                rs \in [1..n -> SitePageRows], last \in {"absent", "disabled"}} :
           n \in 1..MaxSitePages}

RenderInit ==
    /\ StdIdle
    /\ DateIdle
    /\ MainIdle
    /\ PageIdle
    /\ LeeIdle
    /\ loop_pc = "open"
    /\ scraper \in PaginatedExtractors
    /\ site \in Sites
    /\ shown = 1
    /\ found = <<>>
    /\ turns = 0
    /\ clicks = <<>>
    /\ stale = {}
    /\ out_data = <<>>
    /\ out_alerts = <<>>

\* 'except Exception' around the with block: the failure is alerted and the
\* function goes on to its return statement.
ScraperFailed ==
    /\ out_alerts' = Append(out_alerts, "scraper failed")
    /\ loop_pc' = "exit"

\* break, or return inside the with block
Break ==
    /\ loop_pc' = "exit"
    /\ UNCHANGED out_alerts

\* with SeleniumDriver() as driver: driver.get(url), and in scrape_lee and
\* scrape_hillsborough the wait for the first table: a timeout of that wait
\* is logged in scrape_lee and ends scrape_hillsborough.
OpenSite ==
    /\ loop_pc = "open"
    /\ \/ loop_pc' = "table" /\ UNCHANGED out_alerts
       \/ scraper = "scrape_hillsborough" /\ Break
       \/ ScraperFailed
    /\ UNCHANGED <<scraper, site, shown, found, turns, clicks, stale, out_data>>
    /\ UNCHANGED <<stdVars, dateVars, mainVars, pageVars, leeVars>>

\* The head of a turn of 'while True': the wait for the table (the grid
\* extractors and scrape_orange), rows = ...find_elements(...), the tests for
\* an empty page, and in the grid extractors the filter
\* [row for row in rows if "gridPager" not in row.get_attribute("class")],
\* which stands outside every inner try: a row that is stale when its class
\* is asked for raises into 'except Exception' of the function.
LocateRows ==
    /\ loop_pc = "table"
    /\ turns' = turns + 1
    /\ LET trs == site[shown].rows
       IN  \/ /\ scraper \in GridExtractors \cup {"scrape_orange"}
              /\ Break
              /\ UNCHANGED <<found, stale>>
           \/ /\ trs = <<>>
              /\ \/ scraper = "scrape_hillsborough"
                 \/ scraper \in GridExtractors \cup {"scrape_orange"} /\ clicks = <<>>
              /\ Break
              /\ UNCHANGED <<found, stale>>
           \/ /\ ~(/\ trs = <<>>
                   /\ \/ scraper = "scrape_hillsborough"
                      \/ scraper \in GridExtractors \cup {"scrape_orange"} /\ clicks = <<>>)
              /\ IF scraper \in GridExtractors
                 THEN \/ /\ found' = SelectSeq(trs, LAMBDA row : ~Contains(row.class, <<"g", "r", "i", "d", "P", "a", "g", "e", "r">>))
                         /\ loop_pc' = "rows"
                         /\ UNCHANGED <<stale, out_alerts>>
                      \/ /\ \E i \in 1..Len(trs) :
                                stale' = stale \cup {[turn |-> turns + 1, row |-> i, at |-> "filter"]}
                         /\ ScraperFailed
                         /\ found' = trs
                 ELSE /\ found' = trs
                      /\ loop_pc' = "rows"
                      /\ UNCHANGED <<stale, out_alerts>>
    /\ UNCHANGED <<scraper, site, shown, clicks, out_data>>
    /\ UNCHANGED <<stdVars, dateVars, mainVars, pageVars, leeVars>>

\* for row in rows: try: cols = ...; data.append(...) except
\* StaleElementReferenceException: continue. Any of the rows may be stale
\* when its cells are read; it is skipped and the loop goes on.
ReadRows ==
    /\ loop_pc = "rows"
    /\ \E skipped \in SUBSET (1..Len(found)) :
           /\ stale' = stale \cup {[turn |-> turns, row |-> i, at |-> "read"] : i \in skipped}
           /\ out_data' = out_data \o RenderedRecords(scraper, found, skipped)
    /\ loop_pc' = "next"
    /\ UNCHANGED <<scraper, site, shown, found, turns, clicks, out_alerts>>
    /\ UNCHANGED <<stdVars, dateVars, mainVars, pageVars, leeVars>>

\* Whether the extractor looks at the state of the control before it clicks:
\* scrape_lee and scrape_hillsborough test the class of the link and
\* is_enabled(), scrape_orange the class of the parent <li>; the grid
\* extractors click whatever find_element(By.LINK_TEXT, ">") returns.
ChecksDisabled(name) == name \notin GridExtractors

\* next_btn.click(); page_num += 1; wait.until(EC.staleness_of(rows[0])).
\* The page is replaced by the one the control leads to (a disabled control
\* that answers the click leads to the page it is on), or the wait times out
\* or the click raises, and the loop ends.
Click(control) ==
    /\ clicks' = Append(clicks, control)
    /\ \/ /\ found # <<>>
          /\ turns < MaxTurns
          /\ shown' = IF control = "enabled" THEN shown + 1 ELSE shown
          /\ loop_pc' = "table"
       \/ /\ loop_pc' = "exit"
          /\ UNCHANGED shown

\* The pagination logic at the end of a turn.
Paginate ==
    /\ loop_pc = "next"
    /\ LET control == site[shown].next
       IN  IF \/ scraper \in GridExtractors \cup {"scrape_orange"} /\ found = <<>>
              \/ control = "absent"
              \/ control = "disabled" /\ ChecksDisabled(scraper)
           THEN /\ loop_pc' = "exit"
                /\ UNCHANGED <<shown, clicks>>
           ELSE Click(control)
    /\ UNCHANGED <<scraper, site, found, turns, stale, out_data, out_alerts>>
    /\ UNCHANGED <<stdVars, dateVars, mainVars, pageVars, leeVars>>

\* SeleniumDriver.__exit__ and return pd.DataFrame(data)
ExitDriver ==
    /\ loop_pc = "exit"
    /\ loop_pc' = "done"
    /\ UNCHANGED <<scraper, site, shown, found, turns, clicks, stale, out_data,
                   out_alerts>>
    /\ UNCHANGED <<stdVars, dateVars, mainVars, pageVars, leeVars>>

RenderNext ==
    \/ OpenSite
    \/ LocateRows
    \/ ReadRows
    \/ Paginate
    \/ ExitDriver

SpecRender == RenderInit /\ [][RenderNext]_vars

(***************************************************************************)
(* main                                                                    *)
(***************************************************************************)

MainInit ==
    /\ StdIdle
    /\ RenderIdle
    /\ DateIdle
    /\ PageIdle
    /\ LeeIdle
    /\ pc = "start"
    /\ DRY_RUN \in BOOLEAN
    /\ WEBHOOK_URL \in BOOLEAN
    /\ credentials \in {"valid", "absent", "malformed"}
    /\ gc = FALSE
    /\ futures = [t \in TaskIds |-> NotSubmitted]
    /\ results = <<>>
    /\ master_df = <<>>
    /\ sheet \in {NoSheet, PriorSheet}
    /\ csv_file = NoFile
    /\ alerts = <<>>
    /\ posts = <<>>
    /\ exit_code = -1

\* get_gspread_client(): a client when credentials are found and accepted,
\* None when none are found or when reading them raises.
get_gspread_client == credentials = "valid"

\* alert_failure(message): always logged, posted to the webhook when one is
\* configured and the run is not a dry run.
alert_failure(message) ==
    /\ alerts' = Append(alerts, message)
    /\ posts' = IF WEBHOOK_URL /\ ~DRY_RUN THEN Append(posts, message) ELSE posts

Alert(kind, task) == [kind |-> kind, task |-> task]

\* main without the credentials check: it always goes on to dispatch.
Start_unchecked ==
    /\ pc = "start"
    /\ gc' = get_gspread_client
    /\ pc' = "dispatch"
    /\ UNCHANGED <<DRY_RUN, WEBHOOK_URL, credentials, futures, results,
                   master_df, sheet, csv_file, alerts, posts, exit_code>>
    /\ UNCHANGED <<stdVars, dateVars, pageVars, leeVars, renderVars>>

\* gc = get_gspread_client(); if not gc and not DRY_RUN: sys.exit(1)
Start ==
    /\ pc = "start"
    /\ gc' = get_gspread_client
    /\ IF ~get_gspread_client /\ ~DRY_RUN
       THEN /\ exit_code' = 1
            /\ pc' = "exited"
       ELSE /\ pc' = "dispatch"
            /\ UNCHANGED exit_code
    /\ UNCHANGED <<DRY_RUN, WEBHOOK_URL, credentials, futures, results,
                   master_df, sheet, csv_file, alerts, posts>>
    /\ UNCHANGED <<stdVars, dateVars, pageVars, leeVars, renderVars>>

\* future_map = {executor.submit(task): ... for task in tasks}
Dispatch ==
    /\ pc = "dispatch"
    /\ futures' = [t \in TaskIds |-> [futures[t] EXCEPT !.state = "queued"]]
    /\ pc' = "collect"
    /\ UNCHANGED <<DRY_RUN, WEBHOOK_URL, credentials, gc, results, master_df,
                   sheet, csv_file, alerts, posts, exit_code>>
    /\ UNCHANGED <<stdVars, dateVars, pageVars, leeVars, renderVars>>

Running == {t \in TaskIds : futures[t].state = "running"}

\* A free worker of the pool takes the next task from the queue.
TaskStart(t) ==
    /\ futures[t].state = "queued"
    /\ \A u \in TaskIds : u < t => futures[u].state # "queued"
    /\ Cardinality(Running) < MAX_WORKERS
    /\ futures' = [futures EXCEPT ![t].state = "running"]
    /\ UNCHANGED <<pc, DRY_RUN, WEBHOOK_URL, credentials, gc, results,
                   master_df, sheet, csv_file, alerts, posts, exit_code>>
    /\ UNCHANGED <<stdVars, dateVars, pageVars, leeVars, renderVars>>

\* SeleniumDriver.__enter__, first half: self.driver =
\* webdriver.Chrome(options=opts) starts the browser, or raises and leaves
\* none.
StartBrowser(t) ==
    /\ futures[t].state = "running"
    /\ tasks[t] \in RenderTasks
    /\ futures[t].session = "none"
    /\ futures' = [futures EXCEPT ![t].session = "started"]
    /\ UNCHANGED <<pc, DRY_RUN, WEBHOOK_URL, credentials, gc, results,
                   master_df, sheet, csv_file, alerts, posts, exit_code>>
    /\ UNCHANGED <<stdVars, dateVars, pageVars, leeVars, renderVars>>

\* SeleniumDriver.__enter__, second half:
\* self.driver.set_page_load_timeout(60); return self.driver. When the call
\* raises, __enter__ has failed: the with statement does not call __exit__,
\* and nothing else quits the browser that was started.
EnterDriver(t) ==
    /\ futures[t].state = "running"
    /\ futures[t].session = "started"
    /\ \/ futures' = [futures EXCEPT ![t].session = "open"]
       \/ futures' = [futures EXCEPT ![t].session = "orphan"]
    /\ UNCHANGED <<pc, DRY_RUN, WEBHOOK_URL, credentials, gc, results,
                   master_df, sheet, csv_file, alerts, posts, exit_code>>
    /\ UNCHANGED <<stdVars, dateVars, pageVars, leeVars, renderVars>>

\* SeleniumDriver.__exit__: self.driver.quit(), when the with block is left
\* by its end, by a return or by an exception.
LeaveDriver(t) ==
    /\ futures[t].state = "running"
    /\ futures[t].session = "open"
    /\ futures' = [futures EXCEPT ![t].session = "closed"]
    /\ UNCHANGED <<pc, DRY_RUN, WEBHOOK_URL, credentials, gc, results,
                   master_df, sheet, csv_file, alerts, posts, exit_code>>
    /\ UNCHANGED <<stdVars, dateVars, pageVars, leeVars, renderVars>>

\* The task returns its DataFrame or raises; when its fetch failed, its
\* except clause has called alert_failure before the return. The function
\* is not left while it is inside __enter__ or inside its with block, and a
\* task whose __enter__ raised returns what 'except Exception' leaves.
TaskFinish(t) ==
    /\ futures[t].state = "running"
    /\ futures[t].session \in {"none", "closed", "orphan"}
    /\ \E o \in TaskOutcomes(t) :
           /\ futures[t].session = "orphan" => (o.fetch = "RetryError" /\ ~o.raised)
           /\ futures' = [futures EXCEPT
                              ![t].state = "done",
                              ![t].out = o,
                              ![t].session = IF @ = "closed" THEN "none" ELSE @]
           /\ IF o.fetch = "RetryError" /\ ~o.raised
              THEN alert_failure(Alert("failed", tasks[t]))
              ELSE UNCHANGED <<alerts, posts>>
    /\ UNCHANGED <<pc, DRY_RUN, WEBHOOK_URL, credentials, gc, results,
                   master_df, sheet, csv_file, exit_code>>
    /\ UNCHANGED <<stdVars, dateVars, pageVars, leeVars, renderVars>>

\* The loop without its try/except: the exception of future.result() leaves
\* main and ends the process.
Collect_uncaught(t) ==
    /\ pc = "collect"
    /\ futures[t].state = "done"
    /\ futures' = [futures EXCEPT ![t].state = "collected"]
    /\ IF futures[t].out.raised
       THEN /\ pc' = "exited"
            /\ exit_code' = 1
            /\ UNCHANGED results
       ELSE /\ results' = IF futures[t].out.df # <<>>
                          THEN Append(results, futures[t].out.df)
                          ELSE results
            /\ UNCHANGED <<pc, exit_code>>
    /\ UNCHANGED <<DRY_RUN, WEBHOOK_URL, credentials, gc, master_df,
                   sheet, csv_file, alerts, posts>>
    /\ UNCHANGED <<stdVars, dateVars, pageVars, leeVars, renderVars>>

\* One turn of 'for future in as_completed(future_map)': a finished future is
\* taken; a non-empty DataFrame is appended to results, an empty one is only
\* logged, an exception is alerted.
Collect(t) ==
    /\ pc = "collect"
    /\ futures[t].state = "done"
    /\ futures' = [futures EXCEPT ![t].state = "collected"]
    /\ IF futures[t].out.raised
       THEN /\ alert_failure(Alert("crashed", tasks[t]))
            /\ UNCHANGED results
       ELSE /\ results' = IF futures[t].out.df # <<>>
                          THEN Append(results, futures[t].out.df)
                          ELSE results
            /\ UNCHANGED <<alerts, posts>>
    /\ UNCHANGED <<pc, DRY_RUN, WEBHOOK_URL, credentials, gc, master_df,
                   sheet, csv_file, exit_code>>
    /\ UNCHANGED <<stdVars, dateVars, pageVars, leeVars, renderVars>>

\* The loop left as soon as one future has been taken.
EndCollect_early ==
    /\ pc = "collect"
    /\ \E t \in TaskIds : futures[t].state = "collected"
    /\ pc' = "merge"
    /\ UNCHANGED <<DRY_RUN, WEBHOOK_URL, credentials, gc, futures, results,
                   master_df, sheet, csv_file, alerts, posts, exit_code>>
    /\ UNCHANGED <<stdVars, dateVars, pageVars, leeVars, renderVars>>

\* The loop and the with block end when every future has been taken.
EndCollect ==
    /\ pc = "collect"
    /\ \A t \in TaskIds : futures[t].state = "collected"
    /\ pc' = "merge"
    /\ UNCHANGED <<DRY_RUN, WEBHOOK_URL, credentials, gc, futures, results,
                   master_df, sheet, csv_file, alerts, posts, exit_code>>
    /\ UNCHANGED <<stdVars, dateVars, pageVars, leeVars, renderVars>>

\* main without the 'if results' test: an empty collection is merged and
\* handed on like any other.
Merge_always ==
    /\ pc = "merge"
    /\ master_df' \in standardize_data(concat(results))
    /\ pc' = IF ~DRY_RUN /\ gc THEN "open" ELSE "csv"
    /\ UNCHANGED <<DRY_RUN, WEBHOOK_URL, credentials, gc, futures, results,
                   sheet, csv_file, alerts, posts, exit_code>>
    /\ UNCHANGED <<stdVars, dateVars, pageVars, leeVars, renderVars>>

\* standardize_data without its try/except: an exception of the
\* normalization leaves main and ends the process.
Merge_uncaught ==
    /\ pc = "merge"
    /\ IF results # <<>>
       THEN \/ /\ master_df' \in standardize_data(concat(results))
               /\ pc' = IF ~DRY_RUN /\ gc THEN "open" ELSE "csv"
               /\ UNCHANGED <<alerts, posts, exit_code>>
            \/ /\ pc' = "exited"
               /\ exit_code' = 1
               /\ UNCHANGED <<master_df, alerts, posts>>
       ELSE /\ alert_failure(Alert("no_data", ""))
            /\ IF ~DRY_RUN
               THEN /\ exit_code' = 1
                    /\ pc' = "exited"
               ELSE /\ pc' = "finish"
                    /\ UNCHANGED exit_code
            /\ UNCHANGED master_df
    /\ UNCHANGED <<DRY_RUN, WEBHOOK_URL, credentials, gc, futures, results,
                   sheet, csv_file>>
    /\ UNCHANGED <<stdVars, dateVars, pageVars, leeVars, renderVars>>
\* main with a test of the merged table: an empty master_df is handled like
\* an empty collection and nothing is published.
Merge_checked ==
    /\ pc = "merge"
    /\ \E m \in (IF results # <<>>
                  THEN standardize_data(concat(results)) \cup {standardize_data_except}
                  ELSE {<<>>}) :
           IF m # <<>>
           THEN /\ master_df' = m
                /\ pc' = IF ~DRY_RUN /\ gc THEN "open" ELSE "csv"
                /\ UNCHANGED <<alerts, posts, exit_code>>
           ELSE /\ alert_failure(Alert("no_data", ""))
                /\ IF ~DRY_RUN
                   THEN /\ exit_code' = 1
                        /\ pc' = "exited"
                   ELSE /\ pc' = "finish"
                        /\ UNCHANGED exit_code
                /\ master_df' = m
    /\ UNCHANGED <<DRY_RUN, WEBHOOK_URL, credentials, gc, futures, results,
                   sheet, csv_file>>
    /\ UNCHANGED <<stdVars, dateVars, pageVars, leeVars, renderVars>>

\* if results: master_df = standardize_data(pd.concat(results)), which is
\* the normalized table or, when the normalization raised, the empty table
\* of its except clause; then to the sheet or to the file; else: the global
\* failure.
Merge ==
    /\ pc = "merge"
    /\ IF results # <<>>
       THEN /\ master_df' \in standardize_data(concat(results))
                              \cup {standardize_data_except}
            /\ pc' = IF ~DRY_RUN /\ gc THEN "open" ELSE "csv"
            /\ UNCHANGED <<alerts, posts, exit_code>>
       ELSE /\ alert_failure(Alert("no_data", ""))
            /\ IF ~DRY_RUN
               THEN /\ exit_code' = 1
                    /\ pc' = "exited"
               ELSE /\ pc' = "finish"
                    /\ UNCHANGED exit_code
            /\ UNCHANGED master_df
    /\ UNCHANGED <<DRY_RUN, WEBHOOK_URL, credentials, gc, futures, results,
                   sheet, csv_file>>
    /\ UNCHANGED <<stdVars, dateVars, pageVars, leeVars, renderVars>>

\* The exceptions a call to the sink can end with.
SinkErrors == {"APIError", "Exception"}

\* The upload without its except clauses: the exception ends the process.
UploadFailed_uncaught(err) ==
    /\ pc' = "exited"
    /\ exit_code' = 1
    /\ UNCHANGED <<alerts, posts>>

\* except gspread.exceptions.APIError / except Exception around the upload
UploadFailed(err) ==
    /\ alert_failure(Alert(IF err = "APIError" THEN "api_error" ELSE "upload_failed", ""))
    /\ pc' = "finish"
    /\ UNCHANGED exit_code

\* sh = gc.open_by_key(SHEET_ID); wks = sh.worksheet(MASTER_TAB_NAME), or
\* sh.add_worksheet(...) when there is none.
Open ==
    /\ pc = "open"
    /\ \/ /\ sheet' = [sheet EXCEPT !.exists = TRUE]
          /\ pc' = "clear"
          /\ UNCHANGED <<alerts, posts, exit_code>>
       \/ /\ \E err \in SinkErrors : UploadFailed(err)
          /\ UNCHANGED sheet
    /\ UNCHANGED <<DRY_RUN, WEBHOOK_URL, credentials, gc, futures, results,
                   master_df, csv_file>>
    /\ UNCHANGED <<stdVars, dateVars, pageVars, leeVars, renderVars>>

\* The upload without wks.clear(): the values are written over the old ones.
Clear_skipped ==
    /\ pc = "clear"
    /\ pc' = "update"
    /\ UNCHANGED <<sheet, alerts, posts, exit_code>>
    /\ UNCHANGED <<DRY_RUN, WEBHOOK_URL, credentials, gc, futures, results,
                   master_df, csv_file>>
    /\ UNCHANGED <<stdVars, dateVars, pageVars, leeVars, renderVars>>

\* wks.clear()
Clear ==
    /\ pc = "clear"
    /\ \/ /\ sheet' = [sheet EXCEPT !.values = <<>>, !.cleared = TRUE]
          /\ pc' = "update"
          /\ UNCHANGED <<alerts, posts, exit_code>>
       \/ /\ \E err \in SinkErrors : UploadFailed(err)
          /\ UNCHANGED sheet
    /\ UNCHANGED <<DRY_RUN, WEBHOOK_URL, credentials, gc, futures, results,
                   master_df, csv_file>>
    /\ UNCHANGED <<stdVars, dateVars, pageVars, leeVars, renderVars>>

\* The upload as one transaction: a write that fails puts back the rows the
\* worksheet held before the clear.
Update_restoring ==
    /\ pc = "update"
    /\ \/ /\ sheet' = [sheet EXCEPT !.values = update(sheet.values, SheetValues(master_df))]
          /\ pc' = "finish"
          /\ UNCHANGED <<alerts, posts, exit_code>>
       \/ /\ \E err \in SinkErrors : UploadFailed(err)
          /\ sheet' = [sheet EXCEPT !.values = PriorValues]
    /\ UNCHANGED <<DRY_RUN, WEBHOOK_URL, credentials, gc, futures, results,
                   master_df, csv_file>>
    /\ UNCHANGED <<stdVars, dateVars, pageVars, leeVars, renderVars>>

\* wks.update([columns] + rows)
Update ==
    /\ pc = "update"
    /\ \/ /\ sheet' = [sheet EXCEPT !.values = update(sheet.values, SheetValues(master_df))]
          /\ pc' = "finish"
          /\ UNCHANGED <<alerts, posts, exit_code>>
       \/ /\ \E err \in SinkErrors : UploadFailed(err)
          /\ UNCHANGED sheet
    /\ UNCHANGED <<DRY_RUN, WEBHOOK_URL, credentials, gc, futures, results,
                   master_df, csv_file>>
    /\ UNCHANGED <<stdVars, dateVars, pageVars, leeVars, renderVars>>

\* The else branch without the write: main goes straight to its end.
WriteCsv_skipped ==
    /\ pc = "csv"
    /\ pc' = "finish"
    /\ UNCHANGED <<DRY_RUN, WEBHOOK_URL, credentials, gc, futures, results,
                   master_df, sheet, csv_file, alerts, posts, exit_code>>
    /\ UNCHANGED <<stdVars, dateVars, pageVars, leeVars, renderVars>>

\* master_df.to_csv("dry_run_master.csv", index=False); when it raises, the
\* exception is logged and nothing else happens.
WriteCsv ==
    /\ pc = "csv"
    /\ \/ csv_file' = [written |-> TRUE, values |-> SheetValues(master_df),
                       error |-> FALSE]
       \/ csv_file' = [csv_file EXCEPT !.error = TRUE]
    /\ pc' = "finish"
    /\ UNCHANGED <<DRY_RUN, WEBHOOK_URL, credentials, gc, futures, results,
                   master_df, sheet, alerts, posts, exit_code>>
    /\ UNCHANGED <<stdVars, dateVars, pageVars, leeVars, renderVars>>

\* main returns; the process ends with status 0.
Finish ==
    /\ pc = "finish"
    /\ exit_code' = 0
    /\ pc' = "exited"
    /\ UNCHANGED <<DRY_RUN, WEBHOOK_URL, credentials, gc, futures, results,
                   master_df, sheet, csv_file, alerts, posts>>
    /\ UNCHANGED <<stdVars, dateVars, pageVars, leeVars, renderVars>>

MainNext ==
    \/ Start
    \/ Dispatch
    \/ \E t \in TaskIds : TaskStart(t)
    \/ \E t \in TaskIds : StartBrowser(t)
    \/ \E t \in TaskIds : EnterDriver(t)
    \/ \E t \in TaskIds : LeaveDriver(t)
    \/ \E t \in TaskIds : TaskFinish(t)
    \/ \E t \in TaskIds : Collect(t)
    \/ EndCollect
    \/ Merge
    \/ Open
    \/ Clear
    \/ Update
    \/ WriteCsv
    \/ Finish

SpecMain == MainInit /\ [][MainNext]_vars

(***************************************************************************)
(* Properties of the normalizer and the deduplication                      *)
(***************************************************************************)

Rows(df) == {df[i] : i \in 1..Len(df)}

Keys(df) == {KeyOf(df[i]) : i \in 1..Len(df)}

\* s is a day of the calendar written YYYY-MM-DD.
IsIsoDate(s) ==
    /\ Len(s) = 10
    /\ s[5] = "-" /\ s[8] = "-"
    /\ \A i \in {1, 2, 3, 4, 6, 7, 9, 10} : s[i] \in Digits
    /\ Num(SubSeq(s, 6, 7)) \in 1..12
    /\ Num(SubSeq(s, 9, 10)) >= 1
    /\ Num(SubSeq(s, 9, 10)) <= DaysInMonth(Num(SubSeq(s, 1, 4)), Num(SubSeq(s, 6, 7)))

\* C1: standardize_data applied to its own output returns the same table, the
\* same rows in the same order.
C1_Idempotent == stage = "twice" => twice = once

\* C2: the output of standardize_data holds each identity key (Name, County,
\* Date) of the normalized input records exactly once: no two output rows
\* share a key, and no key of the input is missing.
C2_OneRowPerKey ==
    stage \in {"once", "twice"} =>
        /\ \A i, j \in 1..Len(once) : i # j => KeyOf(once[i]) # KeyOf(once[j])
        /\ Keys(once) = Keys(Normalized(DataFrame(data)))

\* Several keys survive and at least one duplicate row was dropped.
C2_Witness ==
    /\ stage = "once"
    /\ Len(once) >= 2
    /\ Len(once) < Len(data)

\* C3: whatever the text of the Date cell, once standardize_data has returned
\* the Date is a day of the calendar written YYYY-MM-DD or is exactly
\* 'Unknown'.
C3_DateTotal == dateDone => (dateOut = Unknown \/ IsIsoDate(dateOut))

\* A date written with slashes came out as an ISO date.
C3_Witness ==
    /\ dateDone
    /\ Contains(dateIn, <<"/">>)
    /\ IsIsoDate(dateOut)

\* C8: every Name of the normalized table is upper case and holds neither '.'
\* nor ',', and the Broward name 'Doe, John' is rewritten to 'JOHN DOE'.
C8_NamesNormalized ==
    stage = "once" =>
        /\ \A i \in 1..Len(once) :
               /\ once[i].Name = Upper(once[i].Name)
               /\ ~Contains(once[i].Name, <<".">>)
               /\ ~Contains(once[i].Name, <<",">>)
        /\ rows = <<DoeJohnComma>> => once[1].Name = <<"J", "O", "H", "N", " ", "D", "O", "E">>

\* C9: 'Jane Roe' 01/02/2020 and 'JANE ROE' 2020-01-02 from the same county
\* normalize to the same key, and the merged table holds exactly one record
\* for them.
C9_JaneRoeMerged ==
    (stage = "once" /\ rows = <<JaneSlash, JaneIso>>) =>
        /\ Len(once) = 1
        /\ KeyOf(once[1]) = <<<<"J", "A", "N", "E", " ", "R", "O", "E">>, <<"P", "o", "l", "k">>, <<"2", "0", "2", "0", "-", "0", "1", "-", "0", "2">>>>

\* C10: the enjoined-list row with Last Name DOE, First Name JOHN and an empty
\* date gives the record with name 'JOHN DOE' and date 'Unknown'.
C10_JohnDoeUnknown ==
    (stage = "once" /\ rows \in {<<DoeJohnRow>>, <<DoeJohnDateRow>>}) =>
        /\ Len(once) = 1
        /\ once[1].Name = <<"J", "O", "H", "N", " ", "D", "O", "E">>
        /\ once[1].Date = Unknown

(***************************************************************************)
(* Properties of the run                                                   *)
(***************************************************************************)

\* The sheet as it can be before the run touches it.
InitialSheets == {NoSheet, PriorSheet}

\* What standardize_data(pd.concat(results)) can have returned: the
\* normalized, sorted and deduplicated table, or the empty table of its
\* except clause.
MergedTables == standardize_data(concat(results)) \cup {standardize_data_except}

\* master_df.columns.tolist() as a row: the six column names, and no cell
\* for the table without columns that the except clause returns.
HeaderOf(df) ==
    IF df = <<>> THEN <<>> ELSE <<"Name", "Date", "County", "Source", "Type", "Details">>

AllCollected == \A t \in TaskIds : futures[t].state = "collected"

\* The tasks that returned a non-empty table.
Productive ==
    {t \in TaskIds : futures[t].state = "collected"
                     /\ ~futures[t].out.raised /\ futures[t].out.df # <<>>}

Crashed == {t \in TaskIds : futures[t].state = "collected" /\ futures[t].out.raised}

Count(seq, x) == Cardinality({i \in 1..Len(seq) : seq[i] = x})

UploadAlerts == {Alert("api_error", ""), Alert("upload_failed", "")}

\* C4: when at least one task returned a non-empty table the process ends
\* with status 0; every task was collected; results holds exactly the tables
\* of the tasks that returned records and master_df is their standardized
\* concatenation; each task that raised gave exactly one alert.
C4_PartialFailure ==
    (pc = "exited" /\ Productive # {}) =>
        /\ exit_code = 0
        /\ AllCollected
        /\ Len(results) = Cardinality(Productive)
        /\ Rows(results) = {futures[t].out.df : t \in Productive}
        /\ master_df \in MergedTables
        /\ \A t \in TaskIds :
               Count(alerts, Alert("crashed", tasks[t])) = IF t \in Crashed THEN 1 ELSE 0

\* One task raised, one returned nothing, one returned records; exit 0.
C4_Witness ==
    /\ pc = "exited"
    /\ exit_code = 0
    /\ Cardinality(Productive) = 1
    /\ Cardinality(Crashed) = 1

\* C5 as claimed: when every task yields zero records nothing is published,
\* the run-level alert is raised and the process exits with an error status,
\* in a dry run as in a normal run.
C5_AllEmptyFails ==
    (pc = "exited" /\ AllCollected /\ Productive = {}) =>
        /\ sheet \in InitialSheets
        /\ csv_file = NoFile
        /\ Count(alerts, Alert("no_data", "")) = 1
        /\ exit_code = 1

\* C5 as amended: when every task yields zero records nothing is published
\* and the run-level alert is raised once (posted to the webhook only when one
\* is configured and the run is not a dry run); the process exits with status
\* 1 in a normal run and with status 0 in a dry run.
C5_AllEmptyFailsUnlessDryRun ==
    (pc = "exited" /\ AllCollected /\ Productive = {}) =>
        /\ sheet \in InitialSheets
        /\ csv_file = NoFile
        /\ master_df = <<>>
        /\ Count(alerts, Alert("no_data", "")) = 1
        /\ Count(posts, Alert("no_data", "")) = IF WEBHOOK_URL /\ ~DRY_RUN THEN 1 ELSE 0
        /\ exit_code = IF DRY_RUN THEN 0 ELSE 1

\* A dry run in which no task gave a record has ended with status 0.
C5_Witness ==
    /\ pc = "exited"
    /\ AllCollected
    /\ Productive = {}
    /\ Crashed # {}
    /\ DRY_RUN
    /\ exit_code = 0

\* C6: without credentials and outside a dry run, main exits with status 1
\* before any task is submitted: no future exists, nothing is collected, the
\* sheet is untouched and no file is written.
C6_NoCredentialsNoRun ==
    (credentials # "valid" /\ ~DRY_RUN /\ pc # "start") =>
        /\ pc = "exited"
        /\ exit_code = 1
        /\ \A t \in TaskIds : futures[t] = NotSubmitted
        /\ results = <<>>
        /\ sheet \in InitialSheets
        /\ csv_file = NoFile

\* Unreadable credentials, no dry run: exited with status 1.
C6_Witness ==
    /\ pc = "exited"
    /\ exit_code = 1
    /\ credentials = "malformed"
    /\ ~DRY_RUN

\* C7: the process exits with status 1 only when credentials are missing
\* outside a dry run or when no task produced a record; after a publishing
\* error, which is alerted, a run that collected records exits with status 0.
C7_ExitCodeRunLevel ==
    pc = "exited" =>
        /\ exit_code \in {0, 1}
        /\ exit_code = 1 =>
               \/ ~gc /\ ~DRY_RUN /\ \A t \in TaskIds : futures[t] = NotSubmitted
               \/ AllCollected /\ Productive = {}
        /\ (\E i \in 1..Len(alerts) : alerts[i] \in UploadAlerts) =>
               exit_code = 0 /\ Productive # {}

\* The write to the sheet failed after the clear; the process exited with 0.
C7_Witness ==
    /\ pc = "exited"
    /\ exit_code = 0
    /\ sheet.exists
    /\ sheet.values = <<>>
    /\ alerts # <<>> /\ alerts[Len(alerts)] \in UploadAlerts

(***************************************************************************)
(* Properties of the extractors                                            *)
(***************************************************************************)

\* The rows of a page after its header row.
DataRows(p) == SubSeq(p.trs, 2, Len(p.trs))

\* The columns of the source's table: the fields the row mapping names.
ExpectedColumns(e) == IF e = "scrape_lee" THEN 3 ELSE 6

\* The fewest cells of a row the extractor makes a record of.
MinColumns(e) ==
    IF e = "scrape_lee" THEN 3 ELSE IF e = "scrape_manatee" THEN 5 ELSE 6

\* The cell the extractor takes the Name from.
NameColumn(e) == IF e \in {"scrape_collier", "scrape_manatee"} THEN 2 ELSE 1

\* The data rows of at least n cells, in page order.
RowsOfAtLeast(p, n) == SelectSeq(DataRows(p), LAMBDA r : Len(r) >= n)

\* A header row, then three data rows: the second one cell short of the
\* source's columns, the first and the third complete.
OneShortPage(e) ==
    /\ content.table
    /\ Len(content.trs) = 4
    /\ Len(content.trs[2]) = ExpectedColumns(e)
    /\ Len(content.trs[3]) = ExpectedColumns(e) - 1
    /\ Len(content.trs[4]) = ExpectedColumns(e)

\* C11 as stated: a static-table extractor gives no record for the header
\* row, none for a data row of fewer cells than the source's table has
\* columns, and one record for every other data row; a page of a header and
\* three data rows, the second one cell short, gives exactly two records.
C11_ShortRowsSkipped ==
    (parsed /\ extractor \in StaticExtractors) =>
        /\ Len(records) = Len(RowsOfAtLeast(content, ExpectedColumns(extractor)))
        /\ OneShortPage(extractor) => Len(records) = 2

\* C11 amended: the header row gives no record, a data row of fewer cells
\* than the extractor's own minimum gives none and every other data row gives
\* exactly one, in page order; the minimum is 3 cells for the Lee enjoined
\* list, 6 for Collier, Polk and Palm Beach and 5 for the six-column Manatee
\* table, so the page with a row one cell short gives two records everywhere
\* but in Manatee, where it gives three.
C11_RowsBelowMinimumSkipped ==
    (parsed /\ extractor \in StaticExtractors) =>
        LET kept == RowsOfAtLeast(content, MinColumns(extractor))
        IN  /\ Len(records) = Len(kept)
            /\ \A j \in 1..Len(kept) :
                   records[j].Name = kept[j][NameColumn(extractor)]
            /\ OneShortPage(extractor) =>
                   Len(records) = IF extractor = "scrape_manatee" THEN 3 ELSE 2

\* The Manatee page with a five-cell second row has been read: three records.
C11_Witness ==
    /\ parsed
    /\ extractor = "scrape_manatee"
    /\ OneShortPage(extractor)
    /\ content.trs[1] # <<>>
    /\ Len(records) = 3
    /\ records[2].Details = <<"C", "a", "s", "e", " ", "N", "u", "m", "b", "e", "r", ":", " ", "r", "5", "c", "1", " ", "|", " ", "C", "a", "s", "e", " ", "T", "y", "p", "e", ":", " ", "r", "5", "c", "3", " ", "|", " ", "F", "i", "l", "i", "n", "g", " ", "D", "a", "t", "e", ":", " ", "r", "5", "c", "4", " ", "|", " ", "D", "i", "s", "p", "o", "s", "i", "t", "i", "o", "n", ":", " ", "N", "/", "A">>

\* The lines of the text by number.
LineNumbers == 1..Len(content)

\* Line i opens a block: it starts with the anchor, in either case of letters.
OpensBlock(i) ==
    LET line == content[i]
    IN  /\ Len(line) >= 5
        /\ line[1] \in {"N", "n"} /\ line[2] \in {"A", "a"}
        /\ line[3] \in {"M", "m"} /\ line[4] \in {"E", "e"}
        /\ line[5] = ":"

\* The block of line i, named by the line that opens it; 0 names the text in
\* front of the first anchor.
BlockOf(i) ==
    IF \E s \in 1..i : OpensBlock(s)
    THEN CHOOSE s \in 1..i :
             OpensBlock(s) /\ \A u \in (s + 1)..i : ~OpensBlock(u)
    ELSE 0

BlockLines(s) == {i \in LineNumbers : BlockOf(i) = s}

\* Line i is a "Key: Value" line: its first colon follows 1 to 30 characters.
IsKeyLine(i) ==
    LET line == str_strip(content[i])
    IN  \E p \in 2..31 :
            /\ p <= Len(line)
            /\ line[p] = ":"
            /\ \A j \in 1..(p - 1) : line[j] # ":"

ColonOf(i) ==
    LET line == str_strip(content[i])
    IN  CHOOSE p \in 1..Len(line) : line[p] = ":" /\ \A j \in 1..(p - 1) : line[j] # ":"

KeyAt(i) == str_strip(SubSeq(str_strip(content[i]), 1, ColonOf(i) - 1))

ValueAt(i) ==
    LET line == str_strip(content[i])
    IN  str_strip(SubSeq(line, ColonOf(i) + 1, Len(line)))

\* Line j continues the value that key line i began: it has text, it is no
\* key line, and no key line and no anchor lies between the two.
Continues(j, i) ==
    /\ i < j
    /\ BlockOf(j) = BlockOf(i)
    /\ str_strip(content[j]) # <<>>
    /\ \A u \in (i + 1)..j : ~IsKeyLine(u)

\* The value the block s holds for the key of key line i, when i is the last
\* line of the block with that key.
FieldValue(i) ==
    LET more == SelectSeq([j \in LineNumbers |-> j], LAMBDA j : Continues(j, i))
    IN  ValueAt(i) \o Flatten([u \in 1..Len(more) |-> <<" ">> \o str_strip(content[more[u]])])

\* The last line of block s that sets the key.
LastKeyLine(s, key) ==
    CHOOSE i \in BlockLines(s) :
        /\ IsKeyLine(i) /\ KeyAt(i) = key
        /\ \A u \in BlockLines(s) : (IsKeyLine(u) /\ KeyAt(u) = key) => u <= i

\* The block holds the name key: a line of it sets 'Name', and the literal
\* 'Name:' stands in it.
HasNameKey(s) ==
    /\ \E i \in BlockLines(s) : IsKeyLine(i) /\ KeyAt(i) = <<"N", "a", "m", "e">>
    /\ \E i \in BlockLines(s) : Contains(content[i], <<"N", "a", "m", "e", ":">>)

\* The blocks with the name key, in text order.
NamedBlocks ==
    SelectSeq([k \in 1..(Len(content) + 1) |-> k - 1],
              LAMBDA s : (s = 0 \/ OpensBlock(s)) /\ BlockLines(s) # {} /\ HasNameKey(s))

\* The key lines of block s that set a key other than 'Name' for the first
\* time in the block, in text order.
FirstKeyLines(s) ==
    SelectSeq([j \in LineNumbers |-> j],
              LAMBDA i : /\ i \in BlockLines(s)
                         /\ IsKeyLine(i)
                         /\ KeyAt(i) # <<"N", "a", "m", "e">>
                         /\ \A u \in BlockLines(s) :
                                (u < i /\ IsKeyLine(u)) => KeyAt(u) # KeyAt(i))

\* The fields of block s other than the name, as "key: value" joined by ' | '.
FieldsText(s) ==
    LET first == FirstKeyLines(s)
    IN  Join([u \in 1..Len(first) |->
                 KeyAt(first[u]) \o <<":", " ">>
                 \o FieldValue(LastKeyLine(s, KeyAt(first[u])))],
             <<" ", "|", " ">>)

\* Line i starts with the anchor as it is written: 'Name:'.
StartsWithName(i) ==
    OpensBlock(i) /\ SubSeq(content[i], 1, 4) = <<"N", "a", "m", "e">>

\* The text is two blocks, each opened by the anchor 'Name:', and nothing else.
TwoAnchoredBlocks ==
    /\ Len(content) >= 2
    /\ StartsWithName(1)
    /\ Cardinality({i \in LineNumbers : StartsWithName(i)}) = 2
    /\ \A i \in LineNumbers :
           (OpensBlock(i) \/ Contains(content[i], <<"N", "a", "m", "e", ":">>))
               => StartsWithName(i)

\* C12: scrape_seminole splits the text in front of every line that starts
\* with 'Name:' and gives exactly one record for each block that holds the
\* name key, in text order, and none for a block without it; the fields of
\* the record are the keys of the "Key: Value" lines of the block, and a line
\* without a key extends the value of the key line before it; a text of two
\* anchored blocks gives exactly two records.
C12_OneRecordPerNamedBlock ==
    (parsed /\ extractor = "scrape_seminole") =>
        /\ Len(records) = Len(NamedBlocks)
        /\ \A j \in 1..Len(NamedBlocks) :
               LET s == NamedBlocks[j]
               IN  /\ records[j].Name = FieldValue(LastKeyLine(s, <<"N", "a", "m", "e">>))
                   /\ records[j].Details = FieldsText(s)
        /\ TwoAnchoredBlocks => Len(records) = 2

\* Two anchored blocks have been read, the first with a continuation line.
C12_Witness ==
    /\ parsed
    /\ extractor = "scrape_seminole"
    /\ TwoAnchoredBlocks
    /\ Len(records) = 2
    /\ records[1].Name = <<"J", "a", "n", "e", " ", "t", "o", " ", "a", "n", "i", "m", "a", "l", "s">>
    /\ records[2].Name = <<"J", "o", "h", "n", " ", "D", "o", "e">>

(***************************************************************************)
(* Properties of fetch_url and of the extractor boundary                   *)
(***************************************************************************)

\* C13 as stated: fetch_url does not repeat a request that ended with a 4xx
\* status: no attempt follows an attempt that got a 4xx response.
C13_ClientErrorNotRetried ==
    \A i \in 1..Len(responses) :
        responses[i] \in ClientErrors => i = Len(responses)

\* The tasks whose fetch failed for good.
FetchFailed ==
    {t \in TaskIds : futures[t].state \in {"done", "collected"}
                     /\ futures[t].out.fetch = "RetryError"}

\* C14: a fetch that failed for good never reaches main as an exception: the
\* extractor returns a table and has alerted the failure once; every task is
\* still run and collected, results holds the tables of all tasks that
\* returned records, and the run ends by the records of the other sources:
\* status 0 and their merged table when there are any.
C14_FetchFailureContained ==
    /\ \A t \in FetchFailed :
           /\ ~futures[t].out.raised
           /\ futures[t].out.df = <<>>
           /\ Count(alerts, Alert("failed", tasks[t])) = 1
           /\ Count(alerts, Alert("crashed", tasks[t])) = 0
    /\ (pc = "exited" /\ FetchFailed # {}) =>
           /\ AllCollected
           /\ Rows(results) = {futures[t].out.df : t \in Productive}
           /\ Len(results) = Cardinality(Productive)
           /\ Productive # {} =>
                  /\ exit_code = 0
                  /\ master_df \in MergedTables

\* The fetch of one task failed, the two others returned records, the run
\* ended with status 0 and their merged table.
C14_Witness ==
    /\ pc = "exited"
    /\ Cardinality(FetchFailed) = 1
    /\ Cardinality(Productive) = 2
    /\ Crashed = {}
    /\ exit_code = 0
    /\ Len(master_df) >= 2

\* An 'except Exception' of scrape_lee has run.
LeeCaught(message) == \E i \in 1..Len(lee_alerts) : lee_alerts[i] = message

\* The records of the registry pages whose rows were extracted.
PagesRead ==
    Flatten([k \in 1..(IF pages_read <= Len(registry) THEN pages_read ELSE Len(registry)) |->
                RegistryRecords(registry[k])])

\* C15 as stated: when an exception was caught at the boundary of the
\* extractor, the extractor returns no record.
C15_CaughtMeansEmpty ==
    (lee_pc = "done" /\ lee_alerts # <<>>) => lee_ret.df = <<>>

\* C15 amended: an exception caught at the boundary of the extractor ends the
\* section it came from and is alerted once; the extractor returns normally
\* and its table holds exactly the records appended before the exception:
\* none of a list whose fetch failed, all of a list that was read, and the
\* rows of each registry page that was read before the session failed.
C15_CaughtKeepsEarlierRecords ==
    lee_pc = "done" =>
        /\ lee_ret.returned
        /\ Count(lee_alerts, "Lee Enjoined failed") <= 1
        /\ Count(lee_alerts, "Lee Registry Selenium failed") <= 1
        /\ LeeCaught("Lee Enjoined failed") <=> FetchState(responses) # "resp"
        /\ lee_ret.df =
               DataFrame((IF LeeCaught("Lee Enjoined failed") THEN <<>>
                          ELSE TableRecords("scrape_lee", enjoined))
                         \o PagesRead)

\* The enjoined list and a registry page were read, then the session failed:
\* the exception was alerted and the records of both are returned.
C15_Witness ==
    /\ lee_pc = "done"
    /\ lee_alerts = <<"Lee Registry Selenium failed">>
    /\ pages_read = 1
    /\ Len(lee_ret.df) = 2
    /\ lee_ret.df[1].Source = <<"L", "e", "e", " ", "E", "n", "j", "o", "i", "n", "e", "d">>
    /\ lee_ret.df[2].Source = <<"L", "e", "e", " ", "R", "e", "g", "i", "s", "t", "r", "y">>

\* The upload of this run went through: main took the publishing branch and
\* none of its except clauses ran.
Published ==
    /\ pc \in {"finish", "exited"}
    /\ ~DRY_RUN
    /\ gc
    /\ results # <<>>
    /\ \A i \in 1..Len(alerts) : alerts[i] \notin UploadAlerts

\* C16: after a successful publish of a run that is no dry run, the
\* worksheet holds the header row and then the rows of master_df of this run,
\* in their order, and nothing else: no row of an earlier run is left.
C16_SinkReplaced ==
    Published =>
        /\ sheet.exists
        /\ Len(sheet.values) = Len(master_df) + 1
        /\ sheet.values[1] = HeaderOf(master_df)
        /\ \A i \in 1..Len(master_df) :
               sheet.values[i + 1] =
                   <<master_df[i].Name, master_df[i].Date, master_df[i].County,
                     master_df[i].Source, master_df[i].Type, master_df[i].Details>>

\* A worksheet that held four rows of an earlier run has been replaced by
\* the header and the single row of this run.
C16_Witness ==
    /\ Published
    /\ pc = "exited"
    /\ Len(master_df) = 1
    /\ Len(sheet.values) = 2
    /\ Len(PriorValues) = 4
    /\ \A i \in 2..Len(sheet.values) : sheet.values[i] # PriorValues[4]

\* C17 as stated: when a run that is no dry run has published, each task
\* that returned records has a worksheet of its own among the worksheets the
\* run wrote, with the canonical columns as its header row, and so has the
\* merged table.
C17_TablePerSource ==
    Published =>
        /\ Worksheets(sheet)[MASTER_TAB_NAME].values[1] = ColumnOrder
        /\ \A t \in Productive :
               /\ tasks[t] \in DOMAIN Worksheets(sheet)
               /\ Worksheets(sheet)[tasks[t]].exists
               /\ Worksheets(sheet)[tasks[t]].values[1] = ColumnOrder

\* C18: when a run has a final table and does not publish it, because it is
\* a dry run or because there is no client for the sink, the header and the
\* rows of that table are what dry_run_master.csv holds and the worksheet is
\* left as it was; the one exception is a write that raises, which main
\* logs. (Without credentials and outside a dry run there is never a final
\* table: main has exited before any task ran, and no file is written.)
C18_FallbackFile ==
    /\ (pc \in {"finish", "exited"} /\ results # <<>> /\ (DRY_RUN \/ ~gc)) =>
           /\ sheet \in InitialSheets
           /\ \/ csv_file.error
              \/ /\ csv_file.written
                 /\ Len(csv_file.values) = Len(master_df) + 1
                 /\ csv_file.values[1] = HeaderOf(master_df)
                 /\ \A i \in 1..Len(master_df) :
                        csv_file.values[i + 1] =
                            <<master_df[i].Name, master_df[i].Date, master_df[i].County,
                              master_df[i].Source, master_df[i].Type, master_df[i].Details>>
    /\ (pc # "start" /\ ~DRY_RUN /\ ~gc) =>
           results = <<>> /\ master_df = <<>> /\ csv_file = NoFile

\* A dry run without credentials has written its two rows to the file.
C18_Witness ==
    /\ pc = "exited"
    /\ DRY_RUN
    /\ credentials = "absent"
    /\ ~csv_file.error
    /\ csv_file.written
    /\ Len(master_df) = 2
    /\ Len(csv_file.values) = 3
    /\ exit_code = 0

\* C19: every record of the table standardize_data returns has a non-empty
\* Name, a non-empty County and a non-empty Source, whatever rows the
\* extractors read, rows with an empty name cell among them.
C19_RequiredFieldsNonEmpty ==
    stage \in {"once", "twice"} =>
        \A i \in 1..Len(once) :
            /\ once[i].Name # <<>>
            /\ once[i].County # <<>>
            /\ once[i].Source # <<>>

\* C20: the table standardize_data returns is in descending order of Date
\* from its first row to its last: no row has a Date that is less, as a
\* string, than the Date of a row after it, and every row dated 'Unknown'
\* stands before every row that has a YYYY-MM-DD date.
C20_DateDescending ==
    stage \in {"once", "twice"} =>
        \A i, j \in 1..Len(once) :
            i < j =>
                /\ ~StrLess(once[i].Date, once[j].Date)
                /\ once[j].Date = Unknown => once[i].Date = Unknown

\* Rows read in the order 2020, 2021, no date come back as 'Unknown', 2021,
\* 2020.
C20_Witness ==
    /\ stage = "once"
    /\ rows = <<JaneSlash, DoeJohnComma, PolkCells(<<"A", "l", " ", "P", "o", "e">>, <<"a">>, <<>>)>>
    /\ Len(once) = 3
    /\ once[1].Date = Unknown
    /\ once[2].Date = <<"2", "0", "2", "1", "-", "0", "3", "-", "0", "4">>
    /\ once[3].Date = <<"2", "0", "2", "0", "-", "0", "1", "-", "0", "2">>

\* The Date column of a table.
DateColumn(df) == [i \in 1..Len(df) |-> df[i].Date]

\* results in another order of completion.
Reordered(p) == [i \in 1..Len(results) |-> results[p[i]]]

\* C21: for the per-source tables a run collected, the merged table does
\* not depend on the order in which the tasks completed. sort_values is
\* handed the Date column only, so for two orders of completion that give
\* the same Date column it returns the same indexer; the rows that indexer
\* takes and drop_duplicates keeps must then be the same rows in the same
\* order.
C21_CompletionOrderIrrelevant ==
    (pc \in {"open", "csv"} /\ results # <<>>) =>
        LET df == Normalized(concat(results))
        IN  \A p \in Permutations(1..Len(results)) :
                LET dfp == Normalized(concat(Reordered(p)))
                IN  DateColumn(dfp) = DateColumn(df) =>
                        \A indexer \in DescendingOrders(df, 1..Len(df)) :
                            drop_duplicates(take(dfp, indexer))
                                = drop_duplicates(take(df, indexer))

\* The call of fetch_url is over: the module is loaded and scrape_lee has
\* gone past its fetch.
FetchOver == lee_pc \notin {"import", "fetch"}

\* C22: one call of fetch_url makes at most three requests; with the retry
\* library a request that failed is followed by another until one succeeds
\* or the third has failed, and that failure reaches the caller (which
\* alerts it); without the retry library the call makes exactly one request.
C22_AtMostThreeRequests ==
    /\ Len(responses) <= 3
    /\ \A i \in 1..(Len(responses) - 1) : responses[i] # "200"
    /\ (FetchOver /\ TENACITY_AVAILABLE) =>
           /\ responses # <<>>
           /\ \/ responses[Len(responses)] = "200"
              \/ /\ Len(responses) = 3
                 /\ \E k \in 1..Len(lee_alerts) : lee_alerts[k] = "Lee Enjoined failed"
    /\ (FetchOver /\ ~TENACITY_AVAILABLE) => Len(responses) = 1

\* The steps main can take from one place to the next: Idle ("start") to
\* Dispatching, Collecting, Merging, Publishing (the sheet: "open", "clear",
\* "update"; or the file: "csv"), and the end ("finish", "exited").
RunOrder ==
    { <<"start", "dispatch">>, <<"start", "exited">>,
      <<"dispatch", "collect">>,
      <<"collect", "collect">>, <<"collect", "merge">>,
      <<"merge", "open">>, <<"merge", "csv">>, <<"merge", "finish">>,
      <<"merge", "exited">>,
      <<"open", "clear">>, <<"open", "finish">>,
      <<"clear", "update">>, <<"clear", "finish">>,
      <<"update", "finish">>,
      <<"csv", "finish">>,
      <<"finish", "exited">> }

Merging == {"merge"}

Publishing == {"open", "clear", "update", "csv"}

AfterCollecting == Merging \cup Publishing \cup {"finish"}

\* Every task of the list has returned or raised and main has taken its
\* result.
AllResolved == \A t \in TaskIds : futures[t].state = "collected"

\* C23: main moves from Dispatching to Collecting to Merging to Publishing
\* in that order and ends with exactly one of the statuses 0 (Done) and 1
\* (Failed); the merge never starts while a dispatched task is unresolved;
\* only the non-empty tables are concatenated; publishing never starts
\* before master_df is the merged table.
C23_RunOrder ==
    /\ [][\E e \in RunOrder : e[1] = pc /\ e[2] = pc']_pc
    /\ [](pc \in AfterCollecting => AllResolved)
    /\ [](/\ \A i \in 1..Len(results) : results[i] # <<>>
          /\ pc \in AfterCollecting =>
                 Rows(results) = {futures[t].out.df : t \in Productive})
    /\ [](pc \in Publishing =>
              /\ results # <<>>
              /\ master_df \in MergedTables)
    /\ [](pc = "exited" <=> exit_code \in {0, 1})
    /\ [][pc = "exited" => pc' = "exited" /\ exit_code' = exit_code]_vars

\* A run that went all the way: three tasks resolved, one of them with an
\* empty table, the merged table of the other two written to the sheet,
\* status 0.
C23_Witness ==
    /\ pc = "exited"
    /\ exit_code = 0
    /\ AllResolved
    /\ Len(results) = 2
    /\ \E t \in TaskIds : ~futures[t].out.raised /\ futures[t].out.df = <<>>
    /\ sheet.exists
    /\ sheet.values = SheetValues(master_df)
    /\ Len(master_df) >= 2

(***************************************************************************)
(* Properties of the paginated extractors                                  *)
(***************************************************************************)

\* C24: in each of the five paginated extractors the page loop ends as soon
\* as the next-page control of the page just read is absent or disabled (or
\* the wait after a click times out), with the records extracted so far
\* kept: no control that is absent or disabled is clicked, and the step
\* taken at such a control leaves the loop with data as it was.
C24_LoopEndsAtLastControl ==
    /\ [](\A k \in 1..Len(clicks) : clicks[k] = "enabled")
    /\ [][(loop_pc = "next" /\ site[shown].next \in {"absent", "disabled"}) =>
              (loop_pc' = "exit" /\ out_data' = out_data)]_vars
    /\ [][(loop_pc \in {"next", "exit"}) => (out_data' = out_data)]_vars

\* The rows that go stale in a step.
NewlyStale == {e.row : e \in stale' \ stale}

\* C25: in every paginated extractor a row element that goes stale after it
\* was located, at whatever moment before its cells are read, costs that row
\* only: the other rows of the page are extracted, the loop goes on to the
\* pagination and nothing is alerted.
C25_StaleRowOnlySkipped ==
    [][stale' # stale =>
           /\ out_alerts' = out_alerts
           /\ loop_pc' = "next"
           /\ out_data' = out_data \o RenderedRecords(scraper, found', NewlyStale)]_vars

\* The tasks whose browser is running.
OpenSessions ==
    {t \in TaskIds : futures[t].session \in {"started", "open", "orphan"}}

\* C26: at every moment at most MAX_WORKERS tasks are executing and at most
\* MAX_WORKERS browsers are running, and when every task has resolved no
\* browser is running: each task quits the one it started on every way out
\* of the function.
C26_SessionsBounded ==
    /\ Cardinality(Running) <= MAX_WORKERS
    /\ Cardinality(OpenSessions) <= MAX_WORKERS
    /\ OpenSessions \subseteq Running
    /\ AllResolved => OpenSessions = {}

\* The normalization of this run raised: records were collected and
\* standardize_data returned the empty table of its except clause.
NormalizationRaised ==
    /\ pc \in Publishing \cup {"finish", "exited"}
    /\ results # <<>>
    /\ master_df = standardize_data_except

\* C27: an exception inside the normalization never leaves standardize_data:
\* once records were collected, master_df is the normalized table or the
\* empty table of the except clause, main goes on to its publishing branch,
\* and the process ends with status 0, never by the exception.
C27_NormalizationContained ==
    (results # <<>> /\ pc \notin {"collect", "merge"}) =>
        /\ master_df \in MergedTables
        /\ pc \in Publishing \cup {"finish", "exited"}
        /\ pc = "exited" => exit_code = 0

\* A dry run whose normalization raised: it ended with status 0 and wrote a
\* file without rows.
C27_Witness ==
    /\ NormalizationRaised
    /\ pc = "exited"
    /\ exit_code = 0
    /\ DRY_RUN
    /\ csv_file.written
    /\ Len(csv_file.values) = 1

\* The cells an extractor takes the date of a record from.
DateColumns(e) ==
    IF e = "scrape_lee" THEN {3}
    ELSE IF e = "scrape_collier" THEN {6}
    ELSE IF e = "scrape_palmbeach" THEN {4}
    ELSE {4, 5}

\* The row has no date: each of its date cells is missing, empty or 'N/A'.
MissingDate(e, cols) ==
    \A k \in DateColumns(e) : k > Len(cols) \/ cols[k] \in {<<>>, NA}

\* C28: a record made from a row whose date is empty, absent or 'N/A' has
\* the Date 'Unknown' once standardize_data has parsed it; no extractor puts
\* another date, such as the day of the run, in its place.
C28_MissingDateUnknown ==
    (parsed /\ extractor \in StaticExtractors) =>
        LET kept == RowsOfAtLeast(content, MinColumns(extractor))
        IN  \A j \in 1..Len(kept) :
                (j <= Len(records) /\ MissingDate(extractor, kept[j])) =>
                    ParseDate(CleanCell(records[j].Date)) = Unknown

\* An except clause of the upload has run.
UploadAlerted == \E i \in 1..Len(alerts) : alerts[i] \in UploadAlerts

\* C29: when records were collected and the normalization raised, a run
\* that is no dry run and has a client still takes the publishing branch:
\* it opens the worksheet, clears it and writes the empty table, and ends
\* with status 0; unless the sink refused a call before the clear was done,
\* the worksheet then holds no record.
C29_EmptyTablePublished ==
    (NormalizationRaised /\ ~DRY_RUN /\ gc) =>
        /\ csv_file = NoFile
        /\ \A i \in 1..Len(alerts) : alerts[i] # Alert("no_data", "")
        /\ pc = "exited" =>
               /\ exit_code = 0
               /\ sheet.cleared \/ UploadAlerted
               /\ sheet.cleared =>
                      \A i \in 1..Len(sheet.values) : sheet.values[i] = <<>>

\* The worksheet of an earlier run was cleared and holds one row without
\* cells; no call to the sink failed; status 0.
C29_Witness ==
    /\ NormalizationRaised
    /\ ~DRY_RUN
    /\ gc
    /\ pc = "exited"
    /\ exit_code = 0
    /\ ~UploadAlerted
    /\ sheet.cleared
    /\ sheet.values = << <<>> >>
    /\ Len(results) >= 1

\* C30: the upload is a clear followed by a write, not one transaction: the
\* write starts on the cleared worksheet, and a write that fails leaves the
\* worksheet empty, without the rows it held before, is alerted once, and
\* does not change how the process ends.
C30_ClearThenWrite ==
    /\ [](pc = "update" => sheet.cleared /\ sheet.values = <<>>)
    /\ [][(pc = "update" /\ alerts' # alerts) =>
              /\ sheet' = sheet
              /\ sheet'.values = <<>>
              /\ pc' = "finish"
              /\ Len(alerts') = Len(alerts) + 1
              /\ alerts'[Len(alerts')] \in UploadAlerts
              /\ exit_code' = exit_code]_vars
    /\ []((pc = "exited" /\ sheet.cleared /\ UploadAlerted) =>
              /\ sheet.values = <<>>
              /\ exit_code = 0
              /\ Count(alerts, Alert("api_error", "")) + Count(alerts, Alert("upload_failed", "")) = 1)

\* The write failed on a worksheet that held rows of an earlier run: the
\* worksheet is empty, the failure was alerted, status 0.
C30_Witness ==
    /\ pc = "exited"
    /\ exit_code = 0
    /\ sheet.exists
    /\ sheet.cleared
    /\ sheet.values = <<>>
    /\ UploadAlerted
    /\ master_df # <<>>
====
